---- MODULE Spec2Model ----
(***************************************************************************)
(* Request-body capture and redaction of securenow: the preload            *)
(* requestHook (tracing.js), the Next.js middleware, the handler wrappers  *)
(* (nextjs-wrapper.js) and the auto-capture patch, with the structural     *)
(* redactor they share.                                                    *)
(*                                                                         *)
(* Text is a sequence of one-character strings.  A parsed JSON value is a  *)
(* record [kind, val]: kind is "str", "num", "bool", "null", "arr" or      *)
(* "obj"; val is the literal text of a scalar, the elements of an array,   *)
(* or the entries [k, v] of an object in key order.                        *)
(***************************************************************************)
EXTENDS Integers, Sequences, FiniteSets, TLC

VARIABLES
    \* The redactor called on its own
    obj,              \* redactSensitiveData: the argument
    sensitiveFields,  \* redactSensitiveData: the field list
    redacted,         \* redactSensitiveData: the returned value
    redactedAgain,    \* redactSensitiveData applied to the returned value
    rpc,              \* "call" before the call, "done" after it, "again"
                      \* after the call on the result
    \* redactGraphQLQuery called on its own
    gqlParts,         \* the query, as its prefix and its field occurrences
    gqlText,          \* redactGraphQLQuery: query
    gqlFields,        \* redactGraphQLQuery: sensitiveFields
    gqlOut,           \* the returned text
    gqlAgain,         \* redactGraphQLQuery applied to the returned text
    gpc,              \* "call", "done", "again"
    \* redactSensitiveData called on objects with identity
    heapInput,        \* the argument, as a value
    heapFields,       \* the field list
    heap,             \* the objects: heap[a] is the array or object at address a
    heapResult,       \* the returned value: a scalar or a reference
    mpc,              \* "call", "done"
    \* The patched Request methods called on one request
    patchRequest,     \* the request: its content type and its body
    bodyUsed,         \* the body of the request is locked or disturbed
    cachedText,       \* this._bodyText
    originalTextCalls, \* times originalText.call(this) was invoked
    patchCalls,       \* the calls of text(), json(), formData(), in call order
    \* The project directory and one run of setup() or of `securenow init`
    files,            \* content of each file setup may write: "absent",
                      \* "user" (what the project held), "template"
    srcDir,           \* the entry `src` of the project: "absent", "dir", "file"
    project,          \* package.json depends on next; tsconfig.json exists
    command,          \* "setup" (postinstall) or "init" (cli)
    flags,            \* parseFlags(args) of `securenow init`
    interactive,      \* !process.env.CI && process.stdin.isTTY
    spc,              \* "start", "prompt", "done", "exit"
    \* The calls of registerSecureNow in one process
    isRegistered,     \* the module variable isRegistered
    otelServiceName,  \* process.env.OTEL_SERVICE_NAME: "unset" or the name written
    registerOTelCalls, \* times registerOTel was invoked
    registrations,    \* times registerOTel returned normally
    registerCalls,    \* the calls of registerSecureNow so far, in call order
    \* Two requests handled one after the other by one process
    requestNo,        \* 1 while the first request is handled, 2 for the second
    twinBody,         \* the body of the other request of the two
    firstAttrs,       \* the attributes written for the first request
    \* One request and the configuration of the process
    variant,          \* "preload", "middleware", "wrapper", "wrapperAsync", "auto"
    captureBody,      \* SECURENOW_CAPTURE_BODY is '1' or 'true'
    method,           \* request.method
    contentType,      \* the content-type header, '' when absent
    activeSpan,       \* trace.getActiveSpan() returns a span
    maxBodySize,      \* parseInt(SECURENOW_MAX_BODY_SIZE || '10240')
    customFields,     \* customSensitiveFields
    bodyText,         \* the body the client sends
    arrived,          \* number of chunks of the body received from the network
    \* The integration's own frame and its capture task
    wpc,              \* wrappedHandler / middleware / requestHook: "idle",
                      \* "called", "invoked", "returned"
    wrapperResult,    \* what wrappedHandler settles with
    cpc,              \* capture: "none", "reading", "scheduled", "done"
    cloneRead,        \* chunks capture has read from its body source
    captureError,     \* an exception was raised inside capture
    \* The host's handler and the original request
    hpc,              \* "idle", "running", "reading", "done"
    handlerCalls,     \* times the wrapped handler was invoked
    handlerArgs,      \* the arguments of its last invocation
    handlerText,      \* its request.text(): "none", "pending", "resolved", "rejected"
    handlerGot,       \* the chunks the host's consumer has received
    handlerResult,    \* "none", "response", "rejected"
    origReader,       \* who used the original body: "none", "handler", "capture"
    cached,           \* request._bodyText of the auto-capture patch
    \* The span
    attrs,            \* attributes written, by name
    spanCreated,      \* tracer.startSpan was called
    spanEnded,        \* times span.end() was called on the created span
    ops,              \* what capture did: "clone", "read", "listen", "parse", "redact"
    escaped,          \* an exception left the capture boundary
    \* The incoming request stream of the preload variant
    flowing,          \* the stream is in flowing mode
    hookListening,    \* requestHook attached its 'data' and 'end' listeners
    hostAttached,     \* the host attached its 'data' and 'end' listeners
    hostEnded,        \* the host's 'end' listener ran
    encoding,         \* "buffer", or "utf8" after request.setEncoding
    emitted,          \* chunks emitted as 'data'
    ended,            \* 'end' was emitted
    size,             \* requestHook: size
    chunks            \* requestHook: chunks

redactVars == <<obj, sensitiveFields, redacted, redactedAgain, rpc>>
gqlVars == <<gqlParts, gqlText, gqlFields, gqlOut, gqlAgain, gpc>>
\* The variables of the operations specified on their own
heapVars == <<heapInput, heapFields, heap, heapResult, mpc>>
patchVars == <<patchRequest, bodyUsed, cachedText, originalTextCalls, patchCalls>>
setupVars == <<files, srcDir, project, command, flags, interactive, spc>>
registerVars == <<isRegistered, otelServiceName, registerOTelCalls, registrations,
                  registerCalls>>
pairVars == <<requestNo, twinBody, firstAttrs>>
unitVars == <<redactVars, gqlVars, heapVars, patchVars, setupVars, registerVars,
              pairVars>>
cfgVars == <<variant, captureBody, method, contentType, activeSpan, maxBodySize,
             customFields, bodyText>>
frameVars == <<wpc, wrapperResult>>
capVars == <<cpc, cloneRead, captureError>>
hostVars == <<hpc, handlerCalls, handlerArgs, handlerText, handlerGot,
              handlerResult, origReader, cached>>
spanVars == <<attrs, spanCreated, spanEnded, ops, escaped>>
nodeVars == <<flowing, hookListening, hostAttached, hostEnded, encoding,
              emitted, ended, size, chunks>>
protoVars == <<cfgVars, arrived, frameVars, capVars, hostVars, spanVars, nodeVars>>
vars == <<unitVars, protoVars>>
\* What each operation specified on its own leaves alone
notRedactVars == <<gqlVars, heapVars, patchVars, setupVars, registerVars, pairVars, protoVars>>
notGqlVars == <<redactVars, heapVars, patchVars, setupVars, registerVars, pairVars, protoVars>>
notHeapVars == <<redactVars, gqlVars, patchVars, setupVars, registerVars, pairVars, protoVars>>
notPatchVars == <<redactVars, gqlVars, heapVars, setupVars, registerVars, pairVars, protoVars>>
notSetupVars == <<redactVars, gqlVars, heapVars, patchVars, registerVars, pairVars, protoVars>>
notRegisterVars == <<redactVars, gqlVars, heapVars, patchVars, setupVars, pairVars, protoVars>>

-----------------------------------------------------------------------------
(* Bounds *)

\* Largest number of nodes (scalars and containers) of a parsed value.
MaxNodes == 4

\* Number of characters of a chunk of the body (the last one may be shorter).
ChunkSize == 4

\* A small configured SECURENOW_MAX_BODY_SIZE, so that bodies exceed it.
SmallMaxBodySize == 8

\* Largest number of field occurrences of a GraphQL query.
MaxOccurrences == 2

\* Largest number of calls of text(), json() or formData() on one request.
MaxCalls == 2

\* Largest number of calls of registerSecureNow in one process.
MaxRegisterCalls == 3

-----------------------------------------------------------------------------
(* Text *)

LowerOf ==
    [A |-> "a", B |-> "b", C |-> "c", D |-> "d", E |-> "e", F |-> "f",
     G |-> "g", H |-> "h", I |-> "i", J |-> "j", K |-> "k", L |-> "l",
     M |-> "m", N |-> "n", O |-> "o", P |-> "p", Q |-> "q", R |-> "r",
     S |-> "s", T |-> "t", U |-> "u", V |-> "v", W |-> "w", X |-> "x",
     Y |-> "y", Z |-> "z"]

\* String.prototype.toLowerCase
ToLowerCase(s) ==
    [i \in 1..Len(s) |-> IF s[i] \in DOMAIN LowerOf THEN LowerOf[s[i]] ELSE s[i]]

\* String.prototype.includes
Includes(hay, needle) ==
    \E i \in 0..(Len(hay) - Len(needle)) :
        SubSeq(hay, i + 1, i + Len(needle)) = needle

DigitChars == <<"0", "1", "2", "3", "4", "5", "6", "7", "8", "9">>

RECURSIVE NumberToString(_)
\* String(n) for a non-negative integer
NumberToString(n) ==
    IF n < 10 THEN <<DigitChars[n + 1]>>
    ELSE NumberToString(n \div 10) \o <<DigitChars[(n % 10) + 1]>>

-----------------------------------------------------------------------------
(* Parsed values *)

Str(s)  == [kind |-> "str", val |-> s]
Num(d)  == [kind |-> "num", val |-> d]
JTrue   == [kind |-> "bool", val |-> <<"t","r","u","e">>]
JNull   == [kind |-> "null", val |-> <<"n","u","l","l">>]
Arr(es) == [kind |-> "arr", val |-> es]
Obj(es) == [kind |-> "obj", val |-> es]
Undefined == [kind |-> "undefined", val |-> <<>>]

\* JavaScript truthiness of a value (the `!obj` test)
Truthy(v) ==
    CASE v.kind = "null" -> FALSE
      [] v.kind = "undefined" -> FALSE
      [] v.kind = "str" -> v.val # <<>>
      [] v.kind = "num" -> v.val # <<"0">>
      [] v.kind = "bool" -> v.val = <<"t","r","u","e">>
      [] OTHER -> TRUE

\* typeof v === 'object'
TypeofObject(v) == v.kind \in {"obj", "arr", "null"}

IsContainer(v) == v.kind \in {"obj", "arr"}

-----------------------------------------------------------------------------
(* The redactor *)

DEFAULT_SENSITIVE_FIELDS ==
  << <<"p","a","s","s","w","o","r","d">>,
     <<"p","a","s","s","w","d">>,
     <<"p","w","d">>,
     <<"s","e","c","r","e","t">>,
     <<"t","o","k","e","n">>,
     <<"a","p","i","_","k","e","y">>,
     <<"a","p","i","k","e","y">>,
     <<"a","c","c","e","s","s","_","t","o","k","e","n">>,
     <<"a","u","t","h">>,
     <<"c","r","e","d","e","n","t","i","a","l","s">>,
     <<"m","y","s","q","l","_","p","w","d">>,
     <<"s","t","r","i","p","e","T","o","k","e","n">>,
     <<"c","a","r","d">>,
     <<"c","a","r","d","n","u","m","b","e","r">>,
     <<"c","c","v">>,
     <<"c","v","c">>,
     <<"c","v","v">>,
     <<"s","s","n">>,
     <<"p","i","n">> >>

REDACTED == Str(<<"[","R","E","D","A","C","T","E","D","]">>)

\* sensitiveFields.some(field => lowerKey.includes(field.toLowerCase()))
\* with lowerKey = key.toLowerCase()
KeyMatchesNever(key, fields) == FALSE
KeyMatches(key, fields) ==
    \E i \in 1..Len(fields) : Includes(ToLowerCase(key), ToLowerCase(fields[i]))

\* The keys `for (const key in redacted)` visits: the indices of an array,
\* as strings, or the keys of an object, in order.
ForInKeys(v) ==
    IF v.kind = "arr"
    THEN [i \in 1..Len(v.val) |-> NumberToString(i - 1)]
    ELSE [i \in 1..Len(v.val) |-> v.val[i].k]

\* redacted[key] of the shallow copy
ValueAt(v, i) == IF v.kind = "arr" THEN v.val[i] ELSE v.val[i].v

RECURSIVE redactSensitiveData(_, _)
redactSensitiveDataMarking(o, fields) ==
    IF ~Truthy(o) \/ ~TypeofObject(o) THEN o
    ELSE LET keys == ForInKeys(o)
             New(i) ==
                 IF KeyMatches(keys[i], fields)
                 THEN IF ValueAt(o, i).kind = "str"
                      THEN Str(ValueAt(o, i).val \o REDACTED.val)
                      ELSE REDACTED
                 ELSE IF TypeofObject(ValueAt(o, i)) /\ ValueAt(o, i).kind # "null"
                      THEN redactSensitiveData(ValueAt(o, i), fields)
                      ELSE ValueAt(o, i)
         IN  IF o.kind = "arr"
             THEN Arr([i \in 1..Len(o.val) |-> New(i)])
             ELSE Obj([i \in 1..Len(o.val) |-> [k |-> o.val[i].k, v |-> New(i)]])
redactSensitiveData(o, fields) ==
    IF ~Truthy(o) \/ ~TypeofObject(o) THEN o
    ELSE LET keys == ForInKeys(o)
             New(i) ==
                 IF KeyMatches(keys[i], fields) THEN REDACTED
                 ELSE IF TypeofObject(ValueAt(o, i)) /\ ValueAt(o, i).kind # "null"
                      THEN redactSensitiveData(ValueAt(o, i), fields)
                      ELSE ValueAt(o, i)
         IN  IF o.kind = "arr"
             THEN Arr([i \in 1..Len(o.val) |-> New(i)])
             ELSE Obj([i \in 1..Len(o.val) |-> [k |-> o.val[i].k, v |-> New(i)]])

-----------------------------------------------------------------------------
(* The inputs of the redactor *)

Scalars == {Str(<<"s">>), Str(<<>>), Num(<<"1">>), JTrue, JNull}

Keys == {<<"P","W","D">>, <<"i","d">>}

\* SECURENOW_SENSITIVE_FIELDS after split(','), trim and filter(Boolean)
CustomFieldChoices == {<<>>, << <<"0">> >>, << <<"I","D">> >>}

AllSensitiveFields(custom) == DEFAULT_SENSITIVE_FIELDS \o custom

\* Sequences of w distinct keys
KeySeqs(w) == {ks \in [1..w -> Keys] : \A i, j \in 1..w : i # j => ks[i] # ks[j]}

RECURSIVE Trees(_), Forests(_, _)
\* The values of exactly n nodes
Trees(n) ==
    IF n = 1 THEN Scalars \cup {Arr(<<>>), Obj(<<>>)}
    ELSE UNION {
           {Arr(f) : f \in Forests(n - 1, w)}
           \cup {Obj([i \in 1..w |-> [k |-> ks[i], v |-> f[i]]]) :
                   ks \in KeySeqs(w), f \in Forests(n - 1, w)}
           : w \in 1..(n - 1)}
\* The sequences of w values of n nodes in all
Forests(n, w) ==
    IF w = 0 THEN (IF n = 0 THEN {<<>>} ELSE {})
    ELSE UNION {{<<t>> \o f : t \in Trees(m), f \in Forests(n - m, w - 1)} :
                 m \in 1..(n - w + 1)}

Values == UNION {Trees(n) : n \in 1..MaxNodes}

-----------------------------------------------------------------------------
(* Text of bodies: serialization, parsing, the GraphQL text redactor *)

Min(a, b) == IF a < b THEN a ELSE b

\* String.prototype.substring(0, n)
Substring0(s, n) == SubSeq(s, 1, Min(n, Len(s)))

RECURSIVE Flatten(_)
\* Buffer.concat(chunks).toString('utf8'), and the text a stream read yields
Flatten(ss) == IF ss = <<>> THEN <<>> ELSE Head(ss) \o Flatten(Tail(ss))

RECURSIVE JoinComma(_)
JoinComma(ss) ==
    IF ss = <<>> THEN <<>>
    ELSE IF Len(ss) = 1 THEN ss[1]
    ELSE ss[1] \o <<",">> \o JoinComma(Tail(ss))

\* JSON.stringify of a string: quotes, with quote, backslash and newline escaped
Quote(s) ==
    <<"\"">>
    \o Flatten([i \in 1..Len(s) |->
                  IF s[i] = "\"" THEN <<"\\", "\"">>
                  ELSE IF s[i] = "\\" THEN <<"\\", "\\">>
                  ELSE IF s[i] = "\n" THEN <<"\\", "n">>
                  ELSE <<s[i]>>])
    \o <<"\"">>

RECURSIVE JSONStringify(_)
JSONStringify(v) ==
    CASE v.kind = "str" -> Quote(v.val)
      [] v.kind = "arr" ->
           <<"[">> \o JoinComma([i \in 1..Len(v.val) |-> JSONStringify(v.val[i])])
           \o <<"]">>
      [] v.kind = "obj" ->
           <<"{">>
           \o JoinComma([i \in 1..Len(v.val) |->
                           Quote(v.val[i].k) \o <<":">> \o JSONStringify(v.val[i].v)])
           \o <<"}">>
      [] OTHER -> v.val

\* The request bodies of the model.
BodyJson    == <<"{","\"","P","W","D","\"",":","\"","s","\"","}">>
BodyBadJson == <<"{","\"","i","d","\"",":","1">>
BodyForm    == <<"i","d","=","1","&","P","W","D","=","s">>
BodyGraphQL == <<"{","u","(","p","w","d",":","\"","s","\"",")","}">>
BodyEmpty   == <<>>
Bodies == {BodyJson, BodyBadJson, BodyForm, BodyGraphQL, BodyEmpty}

\* Pairs of JSON values, and of form bodies, that differ only in what is
\* stored under the key PWD
TwinJsonValues ==
    LET pwd == <<"P","W","D">>
        id == <<"i","d">>
    IN  { <<Obj(<<[k |-> pwd, v |-> Str(<<"s">>)]>>),
            Obj(<<[k |-> pwd, v |-> Num(<<"1">>)]>>)>>,
          <<Obj(<<[k |-> id, v |-> Num(<<"1">>)], [k |-> pwd, v |-> Str(<<"s">>)]>>),
            Obj(<<[k |-> id, v |-> Num(<<"1">>)], [k |-> pwd, v |-> Arr(<<JNull>>)]>>)>>,
          <<Obj(<<[k |-> id, v |-> Obj(<<[k |-> pwd, v |-> Str(<<"s">>)]>>)]>>),
            Obj(<<[k |-> id, v |-> Obj(<<[k |-> pwd, v |-> Str(<<>>)]>>)]>>)>> }
TwinJsonBodies ==
    {<<JSONStringify(p[1]), JSONStringify(p[2])>> : p \in TwinJsonValues}
TwinFormBodies ==
    { <<BodyForm, <<"i","d","=","1","&","P","W","D","=">> >>,
      << <<"P","W","D","=","s">>, <<"P","W","D","=","1">> >> }
TwinBodies == TwinJsonBodies \cup TwinFormBodies

SyntaxError == [kind |-> "SyntaxError", val |-> <<>>]

\* JSON.parse on the bodies of the model: the value whose serialization the
\* text is, or a SyntaxError when it is the serialization of none.
JSONParseTable ==
    [b \in Bodies \cup {p[1] : p \in TwinBodies} \cup {p[2] : p \in TwinBodies} |->
        IF \E v \in Values : JSONStringify(v) = b
        THEN CHOOSE v \in Values : JSONStringify(v) = b
        ELSE SyntaxError]
JSONParse(text) == JSONParseTable[text]

RECURSIVE IndexOfFrom(_, _, _)
\* The first position >= i of character c in s, or Len(s) + 1
IndexOfFrom(s, c, i) ==
    IF i > Len(s) THEN Len(s) + 1
    ELSE IF s[i] = c THEN i ELSE IndexOfFrom(s, c, i + 1)

RECURSIVE SplitOn(_, _)
SplitOn(s, c) ==
    LET j == IndexOfFrom(s, c, 1)
    IN  IF j > Len(s) THEN <<s>>
        ELSE <<SubSeq(s, 1, j - 1)>> \o SplitOn(SubSeq(s, j + 1, Len(s)), c)

RECURSIVE FromEntries(_, _)
\* Object.fromEntries: a repeated key keeps its first position and takes the
\* last value.
FromEntries(pairs, acc) ==
    IF pairs = <<>> THEN acc
    ELSE LET p == Head(pairs)
             at == {i \in 1..Len(acc) : acc[i].k = p.k}
         IN  FromEntries(Tail(pairs),
                 IF at = {} THEN Append(acc, p)
                 ELSE [i \in 1..Len(acc) |-> IF i \in at THEN p ELSE acc[i]])

\* Object.fromEntries(new URLSearchParams(text)): name=value pairs separated
\* by '&', empty pairs skipped, a pair without '=' has the empty value.
ParseForm(text) ==
    LET parts == SelectSeq(SplitOn(text, "&"), LAMBDA x : x # <<>>)
        Pair(x) == LET j == IndexOfFrom(x, "=", 1)
                   IN  [k |-> SubSeq(x, 1, j - 1),
                        v |-> Str(SubSeq(x, j + 1, Len(x)))]
    IN  Obj(FromEntries([i \in 1..Len(parts) |-> Pair(parts[i])], <<>>))

WhiteSpace == {" ", "\n"}
QuoteChars == {"\"", "'"}
\* [^\s,})\n]
UnquotedStop == WhiteSpace \cup {",", "}", ")"}

RECURSIVE SkipWhile(_, _, _)
\* The first position >= i of s whose character is not in cs, or Len(s) + 1
SkipWhile(s, cs, i) ==
    IF i > Len(s) THEN Len(s) + 1
    ELSE IF s[i] \in cs THEN SkipWhile(s, cs, i + 1) ELSE i

RECURSIVE SkipUntil(_, _, _)
\* The first position >= i of s whose character is in cs, or Len(s) + 1
SkipUntil(s, cs, i) ==
    IF i > Len(s) THEN Len(s) + 1
    ELSE IF s[i] \in cs THEN i ELSE SkipUntil(s, cs, i + 1)

\* One character p of the field, interpolated into the pattern source,
\* against the character c of the text under the i flag: '.' matches every
\* character but a line terminator, a letter or digit matches itself.
FieldCharMatches(p, c) ==
    IF p = "." THEN c # "\n"
    ELSE ToLowerCase(<<p>>) = ToLowerCase(<<c>>)

\* The prefix `field\s*:\s*` matched case-insensitively at position i of s:
\* the position after it, or 0 when it does not match.
MatchPrefix(s, field, i) ==
    LET n == Len(field)
    IN  IF i + n - 1 > Len(s) THEN 0
        ELSE IF \E j \in 1..n : ~FieldCharMatches(field[j], s[i + j - 1]) THEN 0
        ELSE LET j == SkipWhile(s, WhiteSpace, i + n)
             IN  IF j > Len(s) \/ s[j] # ":" THEN 0
                 ELSE SkipWhile(s, WhiteSpace, j + 1)

\* new RegExp(`(${field}\\s*:\\s*["'])([^"']+)(["'])`, 'gi') at position i:
\* [ok, prefixEnd, valueEnd, end], positions inclusive.
MatchQuoted(s, field, i) ==
    LET k == MatchPrefix(s, field, i)
        e == SkipUntil(s, QuoteChars, k + 1)
    IN  IF k = 0 \/ k > Len(s) \/ ~(s[k] \in QuoteChars)
        THEN [ok |-> FALSE, prefixEnd |-> 0, valueEnd |-> 0, end |-> 0]
        ELSE IF e = k + 1 \/ e > Len(s)
        THEN [ok |-> FALSE, prefixEnd |-> 0, valueEnd |-> 0, end |-> 0]
        ELSE [ok |-> TRUE, prefixEnd |-> k, valueEnd |-> e - 1, end |-> e]

\* new RegExp(`(${field}\\s*:\\s*)([^\\s,})\n]+)`, 'gi') at position i
MatchUnquoted(s, field, i) ==
    LET k == MatchPrefix(s, field, i)
        e == SkipUntil(s, UnquotedStop, k)
    IN  IF k = 0 \/ e = k
        THEN [ok |-> FALSE, prefixEnd |-> 0, valueEnd |-> 0, end |-> 0]
        ELSE [ok |-> TRUE, prefixEnd |-> k - 1, valueEnd |-> e - 1, end |-> e - 1]

\* The replacer (match, prefix, value, suffix): for the quoted pattern suffix
\* is the third group; the unquoted pattern has two groups, so the fourth
\* argument String.prototype.replace passes is the offset of the match, which
\* is falsy only at offset 0.
Replacement(s, m, i, quoted) ==
    LET prefix == SubSeq(s, i, m.prefixEnd)
    IN  IF quoted THEN prefix \o REDACTED.val \o SubSeq(s, m.end, m.end)
        ELSE IF i - 1 # 0 THEN prefix \o REDACTED.val \o NumberToString(i - 1)
        ELSE prefix \o REDACTED.val

RECURSIVE ReplaceAllFrom(_, _, _, _)
\* redacted.replace(pattern, replacer) with the g flag, scanning from i
ReplaceAllFrom(s, field, quoted, i) ==
    IF i > Len(s) THEN <<>>
    ELSE LET m == IF quoted THEN MatchQuoted(s, field, i)
                  ELSE MatchUnquoted(s, field, i)
         IN  IF m.ok
             THEN Replacement(s, m, i, quoted)
                  \o ReplaceAllFrom(s, field, quoted, m.end + 1)
             ELSE <<s[i]>> \o ReplaceAllFrom(s, field, quoted, i + 1)

\* new RegExp(`(${field}\\s*:\\s*["'])...`) throws a SyntaxError when the field
\* name leaves a group open or closes one that is not open.
PatternThrows(field) ==
    Cardinality({i \in 1..Len(field) : field[i] = "("})
        # Cardinality({i \in 1..Len(field) : field[i] = ")"})

\* redactGraphQLQuery(query, fields) on a non-empty query throws: the
\* patterns of each field are built before any replacement with it.
NewRegExpThrows(fields) == \E i \in 1..Len(fields) : PatternThrows(fields[i])

RECURSIVE redactGraphQLQueryFrom(_, _, _)
redactGraphQLQueryFrom(text, fields, n) ==
    IF n > Len(fields) THEN text
    ELSE redactGraphQLQueryFrom(
             ReplaceAllFrom(ReplaceAllFrom(text, fields[n], TRUE, 1),
                            fields[n], FALSE, 1),
             fields, n + 1)

\* redactGraphQLQuery(query, sensitiveFields) on a string
redactGraphQLQuery(query, fields) ==
    IF query = <<>> THEN query ELSE redactGraphQLQueryFrom(query, fields, 1)

-----------------------------------------------------------------------------
(* Requests, configuration and spans *)

APPLICATION_JSON ==
    <<"a","p","p","l","i","c","a","t","i","o","n","/","j","s","o","n">>
APPLICATION_GRAPHQL ==
    <<"a","p","p","l","i","c","a","t","i","o","n","/","g","r","a","p","h",
      "q","l">>
APPLICATION_FORM ==
    <<"a","p","p","l","i","c","a","t","i","o","n","/","x","-","w","w","w",
      "-","f","o","r","m","-","u","r","l","e","n","c","o","d","e","d">>
MULTIPART_FORM_DATA ==
    <<"m","u","l","t","i","p","a","r","t","/","f","o","r","m","-","d","a",
      "t","a">>
GRAPHQL ==
    <<"g","r","a","p","h","q","l">>
HeaderJson ==
    <<"a","p","p","l","i","c","a","t","i","o","n","/","j","s","o","n",";",
      " ","c","h","a","r","s","e","t","=","u","t","f","-","8">>
HeaderJsonUpper ==
    <<"A","p","p","l","i","c","a","t","i","o","n","/","J","S","O","N">>
HeaderMultipart ==
    <<"m","u","l","t","i","p","a","r","t","/","f","o","r","m","-","d","a",
      "t","a",";"," ","b","o","u","n","d","a","r","y","=","X">>
HeaderText ==
    <<"t","e","x","t","/","p","l","a","i","n">>
MULTIPART_NOT_CAPTURED ==
    <<"[","M","U","L","T","I","P","A","R","T"," ","-"," ","N","O","T"," ",
      "C","A","P","T","U","R","E","D","]">>
INVALID_JSON ==
    <<"[","I","N","V","A","L","I","D"," ","J","S","O","N","]">>
TOO_LARGE_OPEN ==
    <<"[","T","O","O"," ","L","A","R","G","E",":"," ">>
TOO_LARGE_CLOSE ==
    <<" ","b","y","t","e","s","]">>
MULTIPART_NOTE ==
    <<"F","i","l","e"," ","u","p","l","o","a","d","s"," ","n","o","t"," ",
      "c","a","p","t","u","r","e","d"," ","b","y"," ","d","e","s","i","g",
      "n">>

\* parseInt(env('SECURENOW_MAX_BODY_SIZE') || '10240')
DEFAULT_MAX_BODY_SIZE == 10240
\* body.substring(0, 1000) of the preload parse-error fallback
PARSE_ERROR_PREFIX == 1000

Variants == {"preload", "middleware", "wrapper", "wrapperAsync", "auto"}
Methods == {"GET", "POST"}
\* ['POST', 'PUT', 'PATCH']
CaptureMethods == {"POST", "PUT", "PATCH"}
ContentTypes == {HeaderJson, APPLICATION_GRAPHQL, APPLICATION_FORM, HeaderMultipart,
                 HeaderJsonUpper, HeaderText, <<>>}

\* contentType.includes('application/json') || ...graphql || ...form
SupportedType(ct) ==
    \/ Includes(ct, APPLICATION_JSON)
    \/ Includes(ct, APPLICATION_GRAPHQL)
    \/ Includes(ct, APPLICATION_FORM)

RECURSIVE ChunkSeq(_)
\* The body as the stream delivers it
ChunkSeq(text) ==
    IF text = <<>> THEN <<>>
    ELSE <<SubSeq(text, 1, Min(ChunkSize, Len(text)))>>
         \o ChunkSeq(SubSeq(text, Min(ChunkSize, Len(text)) + 1, Len(text)))

Chunks == ChunkSeq(bodyText)
NChunks == Len(Chunks)

NoAttrs == [k \in {} |-> TRUE]
\* span.setAttributes(new) on the attributes a
Merge(a, new) ==
    [k \in DOMAIN a \cup DOMAIN new |-> IF k \in DOMAIN new THEN new[k] ELSE a[k]]

\* `[TOO LARGE: ${n} bytes]`
TooLarge(n) == TOO_LARGE_OPEN \o NumberToString(n) \o TOO_LARGE_CLOSE

NoArguments == [request |-> "none", context |-> "none"]
NotCached == [set |-> FALSE, text |-> <<>>]

-----------------------------------------------------------------------------
(* The redactor applied to every input *)

ProtocolIdle ==
    /\ variant = "none" /\ captureBody = FALSE /\ method = "GET"
    /\ contentType = <<>> /\ activeSpan = FALSE /\ maxBodySize = DEFAULT_MAX_BODY_SIZE
    /\ customFields = <<>> /\ bodyText = <<>> /\ arrived = 0
    /\ wpc = "idle" /\ wrapperResult = "none"
    /\ cpc = "none" /\ cloneRead = 0 /\ captureError = FALSE
    /\ hpc = "idle" /\ handlerCalls = 0 /\ handlerArgs = NoArguments
    /\ handlerText = "none" /\ handlerGot = <<>> /\ handlerResult = "none"
    /\ origReader = "none" /\ cached = NotCached
    /\ attrs = NoAttrs /\ spanCreated = FALSE /\ spanEnded = 0
    /\ ops = {} /\ escaped = FALSE
    /\ flowing = FALSE /\ hookListening = FALSE /\ hostAttached = FALSE
    /\ hostEnded = FALSE /\ encoding = "buffer" /\ emitted = 0
    /\ ended = FALSE /\ size = 0 /\ chunks = <<>>

RedactIdle ==
    /\ obj = Undefined /\ sensitiveFields = <<>> /\ redacted = Undefined
    /\ redactedAgain = Undefined /\ rpc = "idle"

GraphQLIdle ==
    /\ gqlParts = <<>> /\ gqlText = <<>> /\ gqlFields = <<>> /\ gqlOut = <<>>
    /\ gqlAgain = <<>> /\ gpc = "idle"

\* The files setup() and initCommand may write
INSTRUMENTATION_TS == "instrumentation.ts"
INSTRUMENTATION_JS == "instrumentation.js"
SRC_INSTRUMENTATION_TS == "src/instrumentation.ts"
SRC_INSTRUMENTATION_JS == "src/instrumentation.js"
ENV_LOCAL == ".env.local"
InstrumentationFiles ==
    {INSTRUMENTATION_TS, INSTRUMENTATION_JS, SRC_INSTRUMENTATION_TS,
     SRC_INSTRUMENTATION_JS}
SrcFiles == {SRC_INSTRUMENTATION_TS, SRC_INSTRUMENTATION_JS}
Paths == InstrumentationFiles \cup {ENV_LOCAL}
NoFlags == [typescript |-> FALSE, javascript |-> FALSE, src |-> FALSE,
            root |-> FALSE, force |-> FALSE]

SetupIdle ==
    /\ files = [p \in Paths |-> "absent"] /\ srcDir = "absent"
    /\ project = [next |-> FALSE, tsconfig |-> FALSE] /\ command = "none"
    /\ flags = NoFlags /\ interactive = FALSE /\ spc = "idle"

PatchIdle ==
    /\ patchRequest = [contentType |-> <<>>, body |-> <<>>] /\ bodyUsed = FALSE
    /\ cachedText = NotCached /\ originalTextCalls = 0 /\ patchCalls = <<>>

HeapIdle ==
    /\ heapInput = Undefined /\ heapFields = <<>> /\ heap = <<>>
    /\ heapResult = Undefined /\ mpc = "idle"

PairIdle == requestNo = 0 /\ twinBody = <<>> /\ firstAttrs = NoAttrs

RegisterIdle ==
    /\ isRegistered = FALSE /\ otelServiceName = "unset"
    /\ registerOTelCalls = 0 /\ registrations = 0 /\ registerCalls = <<>>

InitRedact ==
    /\ PairIdle
    /\ RegisterIdle
    /\ SetupIdle
    /\ PatchIdle
    /\ ProtocolIdle
    /\ GraphQLIdle
    /\ HeapIdle
    /\ obj \in Values
    /\ sensitiveFields \in {AllSensitiveFields(c) : c \in CustomFieldChoices}
    /\ redacted = Undefined
    /\ redactedAgain = Undefined
    /\ rpc = "call"

CallRedact ==
    /\ rpc = "call"
    /\ redacted' = redactSensitiveData(obj, sensitiveFields)
    /\ rpc' = "done"
    /\ UNCHANGED <<obj, sensitiveFields, redactedAgain, notRedactVars>>

\* The result of the call is redacted once more with the same fields.
CallRedactAgain ==
    /\ rpc = "done"
    /\ redactedAgain' = redactSensitiveData(redacted, sensitiveFields)
    /\ rpc' = "again"
    /\ UNCHANGED <<obj, sensitiveFields, redacted, notRedactVars>>

NextRedact ==
    \/ CallRedact
    \/ CallRedactAgain

SpecRedact == InitRedact /\ [][NextRedact]_vars

-----------------------------------------------------------------------------
(* The redactor on objects with identity *)

\* A reference to the array or object at address a
Ref(a) == [kind |-> "ref", val |-> a]

RECURSIVE Allocate(_, _), AllocateEach(_, _, _)
\* The heap h with the value v built in it: [heap, val], val a scalar or the
\* reference to the container of v.  A container holds its own enumerable
\* keys and, under each, a scalar or a reference.
Allocate(h, v) ==
    IF ~IsContainer(v) THEN [heap |-> h, val |-> v]
    ELSE LET r == AllocateEach(h, [i \in 1..Len(v.val) |-> ValueAt(v, i)], <<>>)
         IN  [heap |-> Append(r.heap, [kind |-> v.kind, keys |-> ForInKeys(v),
                                       vals |-> r.vals]),
              val |-> Ref(Len(r.heap) + 1)]
AllocateEach(h, vs, acc) ==
    IF vs = <<>> THEN [heap |-> h, vals |-> acc]
    ELSE LET r == Allocate(h, Head(vs))
         IN  AllocateEach(r.heap, Tail(vs), Append(acc, r.val))

RECURSIVE Reify(_, _)
\* The value that x denotes in the heap h
Reify(h, x) ==
    IF x.kind # "ref" THEN x
    ELSE LET c == h[x.val]
         IN  IF c.kind = "arr"
             THEN Arr([i \in 1..Len(c.vals) |-> Reify(h, c.vals[i])])
             ELSE Obj([i \in 1..Len(c.vals) |->
                          [k |-> c.keys[i], v |-> Reify(h, c.vals[i])]])

\* `redacted = obj` instead of a copy
ShallowCopyAlias(h, a) == [heap |-> h, ref |-> a]
\* `Array.isArray(obj) ? [...obj] : { ...obj }`: a new object with the keys
\* and values of the object at a
ShallowCopy(h, a) == [heap |-> Append(h, h[a]), ref |-> Len(h) + 1]

RECURSIVE RedactInHeap(_, _, _), RedactKeysFrom(_, _, _, _)
\* redactSensitiveData(obj, sensitiveFields) on the heap h: [heap, val]
RedactInHeap(h, x, fields) ==
    IF x.kind # "ref" THEN [heap |-> h, val |-> x]
    ELSE LET c == ShallowCopy(h, x.val)
         IN  [heap |-> RedactKeysFrom(c.heap, c.ref, 1, fields), val |-> Ref(c.ref)]
\* `for (const key in redacted)` from the i-th key on: the heap after it
RedactKeysFrom(h, r, i, fields) ==
    IF i > Len(h[r].keys) THEN h
    ELSE IF KeyMatches(h[r].keys[i], fields)
    THEN RedactKeysFrom([h EXCEPT ![r].vals[i] = REDACTED], r, i + 1, fields)
    ELSE IF h[r].vals[i].kind = "ref"
    THEN LET c == RedactInHeap(h, h[r].vals[i], fields)
         IN  RedactKeysFrom([c.heap EXCEPT ![r].vals[i] = c.val], r, i + 1, fields)
    ELSE RedactKeysFrom(h, r, i + 1, fields)

\* The heap holding the argument, and the argument in it
HeapAtCall == Allocate(<<>>, heapInput)

InitHeap ==
    /\ PairIdle
    /\ RegisterIdle
    /\ SetupIdle
    /\ PatchIdle
    /\ ProtocolIdle
    /\ RedactIdle
    /\ GraphQLIdle
    /\ heapInput \in Values
    /\ heapFields \in {AllSensitiveFields(c) : c \in CustomFieldChoices}
    /\ heap = HeapAtCall.heap
    /\ heapResult = Undefined
    /\ mpc = "call"

CallRedactInHeap ==
    /\ mpc = "call"
    /\ LET r == RedactInHeap(heap, HeapAtCall.val, heapFields)
       IN  /\ heap' = r.heap
           /\ heapResult' = r.val
    /\ mpc' = "done"
    /\ UNCHANGED <<heapInput, heapFields, notHeapVars>>

NextHeap == CallRedactInHeap

SpecHeap == InitHeap /\ [][NextHeap]_vars

-----------------------------------------------------------------------------
(* The GraphQL text redactor applied to queries *)

\* A query of the model is a prefix followed by field occurrences
\* `name sep value delim`; a value is a text with its quote, if any.
GqlPrefixes == {<<>>, <<"{","u","(">>}
GqlNames == {<<"p","w","d">>, <<"P","W","D">>, <<"i","d">>}
GqlSeparators == {<<":">>, <<":"," ">>}
GqlValues == {[quote |-> <<>>, text |-> <<"s">>],
              [quote |-> <<"\"">>, text |-> <<"s">>],
              [quote |-> <<"'">>, text |-> <<"s"," ","t">>]}
GqlDelimiters == {<<",">>, <<")">>}
Occurrences ==
    [name : GqlNames, sep : GqlSeparators, value : GqlValues, delim : GqlDelimiters]

\* An occurrence as text, with its value or with v in place of its value
RenderWith(o, v) == o.name \o o.sep \o o.value.quote \o v \o o.value.quote \o o.delim
Render(parts) ==
    parts.prefix
    \o Flatten([i \in 1..Len(parts.occs) |->
                   RenderWith(parts.occs[i], parts.occs[i].value.text)])

GqlQueries ==
    [prefix : GqlPrefixes,
     occs : UNION {[1..n -> Occurrences] : n \in 1..MaxOccurrences}]

\* The field lists: the built-in one, one built-in field, and one
\* caller-supplied field with a dot (as in a dotted path)
PlainFieldLists == {DEFAULT_SENSITIVE_FIELDS, << <<"p","w","d">> >>}
GqlFieldLists == PlainFieldLists \cup {<< <<"p",".","d">> >>}

InitGraphQL ==
    /\ PairIdle
    /\ RegisterIdle
    /\ SetupIdle
    /\ PatchIdle
    /\ ProtocolIdle
    /\ RedactIdle
    /\ HeapIdle
    /\ gqlParts \in GqlQueries
    /\ gqlText = Render(gqlParts)
    /\ gqlFields \in GqlFieldLists
    /\ gqlOut = <<>>
    /\ gqlAgain = <<>>
    /\ gpc = "call"

CallRedactGraphQL ==
    /\ gpc = "call"
    /\ gqlOut' = redactGraphQLQuery(gqlText, gqlFields)
    /\ gpc' = "done"
    /\ UNCHANGED <<gqlParts, gqlText, gqlFields, gqlAgain, notGqlVars>>

\* The returned text is redacted once more with the same fields.
CallRedactGraphQLAgain ==
    /\ gpc = "done"
    /\ gqlAgain' = redactGraphQLQuery(gqlOut, gqlFields)
    /\ gpc' = "again"
    /\ UNCHANGED <<gqlParts, gqlText, gqlFields, gqlOut, notGqlVars>>

NextGraphQL ==
    \/ CallRedactGraphQL
    \/ CallRedactGraphQLAgain

SpecGraphQL == InitGraphQL /\ [][NextGraphQL]_vars

-----------------------------------------------------------------------------
(* The patched Request methods called on one request *)

Resolved(v) == [status |-> "resolved", value |-> v]
Rejected(e) == [status |-> "rejected", value |-> e]
Pending == [status |-> "pending", value |-> Undefined]
TypeError == [kind |-> "TypeError", val |-> <<>>]
\* The objects formData() gives, with their entries
URLSearchParams(entries) == [kind |-> "URLSearchParams", val |-> entries]
FormData(entries) == [kind |-> "FormData", val |-> entries]

BodyMethods == {"text", "json", "formData"}
PatchContentTypes == {HeaderJson, APPLICATION_FORM, HeaderMultipart}

\* What a patched method settles with once this.text() gave text:
\* text() returns it, json() returns JSON.parse(text) or throws, formData()
\* returns new URLSearchParams(text).
PatchedOutcome(kind, text) ==
    CASE kind = "text" -> Resolved(Str(text))
      [] kind = "json" -> IF JSONParse(text) = SyntaxError
                          THEN Rejected(SyntaxError)
                          ELSE Resolved(JSONParse(text))
      [] OTHER -> Resolved(URLSearchParams(ParseForm(text).val))

\* What the unpatched method of the platform settles with on the first read
\* of the request: formData() gives a FormData for a urlencoded or multipart
\* body and rejects with a TypeError for every other content type.
OriginalOutcome(kind, request) ==
    CASE kind = "text" -> Resolved(Str(request.body))
      [] kind = "json" -> IF JSONParse(request.body) = SyntaxError
                          THEN Rejected(SyntaxError)
                          ELSE Resolved(JSONParse(request.body))
      [] OTHER ->
           IF Includes(request.contentType, APPLICATION_FORM)
           THEN Resolved(FormData(ParseForm(request.body).val))
           ELSE IF Includes(request.contentType, MULTIPART_FORM_DATA)
           THEN Resolved(FormData(<<>>))
           ELSE Rejected(TypeError)

InitPatch ==
    /\ PairIdle
    /\ RegisterIdle
    /\ SetupIdle
    /\ ProtocolIdle
    /\ RedactIdle
    /\ GraphQLIdle
    /\ HeapIdle
    /\ patchRequest \in [contentType : PatchContentTypes, body : Bodies]
    /\ bodyUsed = FALSE
    /\ cachedText = NotCached
    /\ originalTextCalls = 0
    /\ patchCalls = <<>>

\* A handler calls text(), json() or formData(): the patched text() runs up
\* to `await originalText.call(this)`, or returns the cached text.
PatchedCall ==
    /\ Len(patchCalls) < MaxCalls
    /\ \E kind \in BodyMethods :
         IF cachedText.set
         THEN /\ patchCalls' = Append(patchCalls,
                     [kind |-> kind, result |-> PatchedOutcome(kind, cachedText.text)])
              /\ UNCHANGED <<bodyUsed, originalTextCalls>>
         ELSE /\ originalTextCalls' = originalTextCalls + 1
              /\ bodyUsed' = TRUE
              /\ patchCalls' = Append(patchCalls,
                     [kind |-> kind,
                      result |-> IF bodyUsed THEN Rejected(TypeError) ELSE Pending])
    /\ UNCHANGED <<patchRequest, cachedText, notPatchVars>>

\* `await originalText.call(this)` resolves: the text is cached and the
\* method settles.
OriginalTextResolve ==
    /\ \E i \in 1..Len(patchCalls) :
         /\ patchCalls[i].result.status = "pending"
         /\ patchCalls' = [patchCalls EXCEPT ![i].result =
                              PatchedOutcome(patchCalls[i].kind, patchRequest.body)]
    /\ cachedText' = [set |-> TRUE, text |-> patchRequest.body]
    /\ UNCHANGED <<patchRequest, bodyUsed, originalTextCalls, notPatchVars>>

NextPatch ==
    \/ PatchedCall
    \/ OriginalTextResolve

SpecPatch == InitPatch /\ [][NextPatch]_vars

-----------------------------------------------------------------------------
(* Project setup: the postinstall setup() and `securenow init` *)

ExistsSyncNever(p) == FALSE
\* fs.existsSync(path.join(cwd, p))
ExistsSync(p) == files[p] # "absent"

\* hasInstrumentationFile()
hasInstrumentationFile == \E p \in InstrumentationFiles : ExistsSync(p)

\* path.join(cwd, 'src', fileName) or path.join(cwd, fileName)
FilePath(useTypeScript, useSrc) ==
    IF useSrc
    THEN IF useTypeScript THEN SRC_INSTRUMENTATION_TS ELSE SRC_INSTRUMENTATION_JS
    ELSE IF useTypeScript THEN INSTRUMENTATION_TS ELSE INSTRUMENTATION_JS

\* fs.writeFileSync(p, template) throws when `src` in the path is no directory
WriteThrows(p, dir) == p \in SrcFiles /\ dir # "dir"
\* The files after fs.writeFileSync(p, template, 'utf8')
WriteFileSync(fs, p) == [fs EXCEPT ![p] = "template"]

InitSetup ==
    /\ PairIdle
    /\ RegisterIdle
    /\ ProtocolIdle
    /\ RedactIdle
    /\ GraphQLIdle
    /\ HeapIdle
    /\ PatchIdle
    /\ srcDir \in {"absent", "dir", "file"}
    /\ files \in [Paths -> {"absent", "user"}]
    /\ \A p \in SrcFiles : files[p] # "absent" => srcDir = "dir"
    /\ project \in [next : BOOLEAN, tsconfig : BOOLEAN]
    /\ command \in {"setup", "init"}
    /\ flags \in IF command = "init"
                 THEN [typescript : BOOLEAN, javascript : BOOLEAN, src : BOOLEAN,
                       root : BOOLEAN, force : BOOLEAN]
                 ELSE {NoFlags}
    /\ interactive \in IF command = "setup" THEN BOOLEAN ELSE {FALSE}
    /\ spc = "start"

\* setup() up to rl.question, or to one of its early returns
SetupRun ==
    /\ command = "setup"
    /\ spc = "start"
    /\ spc' = IF ~project.next THEN "done"
              ELSE IF hasInstrumentationFile THEN "done"
              ELSE IF ~interactive THEN "done"
              ELSE "prompt"
    /\ UNCHANGED <<files, srcDir, project, command, flags, interactive,
                   notSetupVars>>

\* The callback of rl.question with the user's answer
SetupAnswer ==
    /\ command = "setup"
    /\ spc = "prompt"
    /\ \E shouldCreate \in BOOLEAN :
         LET filePath == FilePath(project.tsconfig, srcDir # "absent")
             created == WriteFileSync(files, filePath)
         IN  files' = IF ~shouldCreate \/ WriteThrows(filePath, srcDir) THEN files
                      ELSE IF ~ExistsSync(ENV_LOCAL)
                      THEN WriteFileSync(created, ENV_LOCAL)
                      ELSE created
    /\ spc' = "done"
    /\ UNCHANGED <<srcDir, project, command, flags, interactive, notSetupVars>>

\* initCommand(args)
InitCommandRun ==
    /\ command = "init"
    /\ spc = "start"
    /\ LET useTypeScript == flags.typescript \/ (~flags.javascript /\ project.tsconfig)
           useSrc == flags.src \/ (~flags.root /\ srcDir # "absent")
           filePath == FilePath(useTypeScript, useSrc)
           \* fs.mkdirSync(src, { recursive: true })
           dir == IF useSrc /\ srcDir = "absent" THEN "dir" ELSE srcDir
           created == WriteFileSync(files, filePath)
       IN  IF ~project.next /\ ~flags.force
           THEN spc' = "exit" /\ UNCHANGED <<files, srcDir>>
           ELSE IF ExistsSync(filePath) /\ ~flags.force
           THEN spc' = "exit" /\ UNCHANGED <<files, srcDir>>
           ELSE IF WriteThrows(filePath, dir)
           THEN spc' = "exit" /\ UNCHANGED <<files, srcDir>>
           ELSE /\ srcDir' = dir
                /\ files' = IF ~ExistsSync(ENV_LOCAL) \/ flags.force
                             THEN WriteFileSync(created, ENV_LOCAL)
                             ELSE created
                /\ spc' = "done"
    /\ UNCHANGED <<project, command, flags, interactive, notSetupVars>>

NextSetup ==
    \/ SetupRun
    \/ SetupAnswer
    \/ InitCommandRun

SpecSetup == InitSetup /\ [][NextSetup]_vars

-----------------------------------------------------------------------------
(* registerSecureNow called repeatedly in one process *)

\* What one call finds: the options argument (absent, so the default {}; null;
\* with a serviceName; with a serviceName that is not a string),
\* process.env.NEXT_RUNTIME, SECURENOW_APPID, whether require('@vercel/otel')
\* finds the module, what registerOTel does when called, and
\* SECURENOW_TEST_SPAN with require('@opentelemetry/api').
RegisterInputs ==
    [options : {"undefined", "null", "named", "notAString"},
     runtime : {"nodejs", "edge"}, appId : {"unset", "app"},
     otelModule : {"present", "missing"},
     registerOTel : {"returns", "throws"},
     testSpan : {"off", "on", "apiMissing"}]

\* The statement at which the try block is left by an exception, "none" when
\* it runs to its end.
TryBlockError(in) ==
    IF in.options \in {"null", "notAString"} THEN "config"
    ELSE IF in.otelModule = "missing" THEN "require"
    ELSE IF in.registerOTel = "throws" THEN "registerOTel"
    ELSE IF in.testSpan = "apiMissing" THEN "testSpan"
    ELSE "none"

\* service.name without its uuid suffix
ServiceName(in) ==
    IF in.options = "named" THEN "named"
    ELSE IF in.appId = "app" THEN "app"
    ELSE "nextjs-app"

\* The catch block: what the call settles with after an exception in the try
\* block.
CatchBlockRethrow(error) == "threw"
CatchBlock(error) == "returned"

\* One call: the exit it takes, what it settles with and the state it leaves.
registerSecureNow(in) ==
    IF isRegistered THEN
        [exit |-> "already", outcome |-> "returned", isRegistered |-> TRUE,
         serviceName |-> otelServiceName, invoked |-> 0, completed |-> 0]
    ELSE IF in.runtime = "edge" THEN
        [exit |-> "edge", outcome |-> "returned", isRegistered |-> FALSE,
         serviceName |-> otelServiceName, invoked |-> 0, completed |-> 0]
    ELSE
        LET error == TryBlockError(in)
            invoked == error \in {"registerOTel", "testSpan", "none"}
            completed == error \in {"testSpan", "none"}
        IN  [exit |-> error,
             outcome |-> IF error = "none" THEN "returned" ELSE CatchBlock(error),
             isRegistered |-> completed,
             serviceName |-> IF error = "config" THEN otelServiceName
                             ELSE ServiceName(in),
             invoked |-> IF invoked THEN 1 ELSE 0,
             completed |-> IF completed THEN 1 ELSE 0]

InitRegister ==
    /\ PairIdle
    /\ SetupIdle
    /\ PatchIdle
    /\ ProtocolIdle
    /\ RedactIdle
    /\ GraphQLIdle
    /\ HeapIdle
    /\ isRegistered = FALSE
    /\ otelServiceName = "unset"
    /\ registerOTelCalls = 0
    /\ registrations = 0
    /\ registerCalls = <<>>

RegisterCall ==
    /\ Len(registerCalls) < MaxRegisterCalls
    /\ \E in \in RegisterInputs :
        LET r == registerSecureNow(in) IN
        /\ isRegistered' = r.isRegistered
        /\ otelServiceName' = r.serviceName
        /\ registerOTelCalls' = registerOTelCalls + r.invoked
        /\ registrations' = registrations + r.completed
        /\ registerCalls' = Append(registerCalls,
                                   [exit |-> r.exit, outcome |-> r.outcome])
    /\ UNCHANGED notRegisterVars

NextRegister == RegisterCall

SpecRegister == InitRegister /\ [][NextRegister]_vars

-----------------------------------------------------------------------------
(* One request through one of the integrations *)

Init ==
    /\ PairIdle
    /\ RegisterIdle
    /\ SetupIdle
    /\ PatchIdle
    /\ RedactIdle
    /\ GraphQLIdle
    /\ HeapIdle
    /\ variant \in Variants
    /\ captureBody \in BOOLEAN
    /\ method \in Methods
    /\ contentType \in ContentTypes
    \* requestHook is handed the span of the request
    /\ activeSpan \in (IF variant = "preload" THEN {TRUE} ELSE BOOLEAN)
    /\ maxBodySize \in {SmallMaxBodySize, DEFAULT_MAX_BODY_SIZE}
    /\ customFields = <<>>
    /\ bodyText \in Bodies
    /\ arrived = 0
    /\ wpc = "idle" /\ wrapperResult = "none"
    /\ cpc = "none" /\ cloneRead = 0 /\ captureError = FALSE
    /\ hpc = "idle" /\ handlerCalls = 0 /\ handlerArgs = NoArguments
    /\ handlerText = "none" /\ handlerGot = <<>> /\ handlerResult = "none"
    /\ origReader = "none" /\ cached = NotCached
    /\ attrs = NoAttrs /\ spanCreated = FALSE /\ spanEnded = 0
    /\ ops = {} /\ escaped = FALSE
    /\ flowing = FALSE /\ hookListening = FALSE /\ hostAttached = FALSE
    /\ hostEnded = FALSE /\ encoding = "buffer" /\ emitted = 0
    /\ ended = FALSE /\ size = 0 /\ chunks = <<>>

allSensitiveFields == AllSensitiveFields(customFields)

\* The synchronous part of wrappedHandler runs without interruption: from
\* the call of captureRequestBody to the call of the handler.
InSyncSection == variant \in {"wrapper", "wrapperAsync"} /\ wpc = "called"

\* A chunk of the body arrives from the network.
ChunkArrive ==
    /\ variant \in Variants
    /\ ~InSyncSection
    /\ arrived < NChunks
    /\ arrived' = arrived + 1
    /\ UNCHANGED <<unitVars, cfgVars, frameVars, capVars, hostVars, spanVars,
                   nodeVars>>

\* The text capture has read from its body source
CaptureText == Flatten(SubSeq(Chunks, 1, cloneRead))

(* ---- nextjs-wrapper.js ---- *)

\* `const cloned = request.clone(); await cloned.text()`: the stream capture
\* reads.
CaptureBodySourceOriginal == "original"
CaptureBodySource == "clone"

\* captureRequestBody up to its first await: the state of capture after it,
\* as [cpc, ops, origReader, captureError].
CaptureRequestBodyStart ==
    LET skip == [cpc |-> "done", ops |-> ops, origReader |-> origReader,
                 captureError |-> captureError]
    IN  IF ~captureBody THEN skip
        ELSE IF method \notin CaptureMethods THEN skip
        ELSE IF ~activeSpan THEN skip
        ELSE IF ~SupportedType(contentType) THEN skip
        ELSE IF origReader # "none"
             THEN \* clone() of a used body throws; caught
                  [skip EXCEPT !.captureError = TRUE]
        ELSE IF CaptureBodySource = "clone"
             THEN [cpc |-> "reading", ops |-> ops \cup {"clone"},
                   origReader |-> origReader, captureError |-> captureError]
             ELSE [cpc |-> "reading", ops |-> ops,
                   origReader |-> "capture", captureError |-> captureError]

\* captureRequestBody after `await cloned.text()`, with a span whose
\* setAttribute(s) throws or not: [attrs, ops, error].  Every exception is
\* caught by the outer try.
CaptureRequestBodyFinish(text, spanThrows) ==
    IF Len(text) > maxBodySize
    THEN [attrs |-> IF spanThrows THEN attrs
                    ELSE Merge(attrs, [http_request_body |-> TooLarge(Len(text)),
                                       http_request_body_size |-> Len(text)]),
          ops |-> ops, error |-> spanThrows]
    ELSE IF \/ Includes(contentType, APPLICATION_JSON)
            \/ Includes(contentType, APPLICATION_GRAPHQL)
    THEN LET parsed == JSONParse(text)
         IN  IF parsed = SyntaxError
             THEN [attrs |-> IF spanThrows THEN attrs
                             ELSE Merge(attrs, [http_request_body |-> INVALID_JSON]),
                   ops |-> ops \cup {"parse"}, error |-> TRUE]
             ELSE [attrs |->
                     IF spanThrows THEN attrs
                     ELSE Merge(attrs,
                            [http_request_body |->
                               Substring0(JSONStringify(
                                   redactSensitiveData(parsed, allSensitiveFields)),
                                   maxBodySize),
                             http_request_body_type |->
                               IF Includes(contentType, GRAPHQL)
                               THEN "graphql" ELSE "json",
                             http_request_body_size |-> Len(text)]),
                   ops |-> ops \cup {"parse", "redact"}, error |-> spanThrows]
    ELSE IF Includes(contentType, APPLICATION_FORM)
    THEN [attrs |->
            IF spanThrows THEN attrs
            ELSE Merge(attrs,
                   [http_request_body |->
                      Substring0(JSONStringify(
                          redactSensitiveData(ParseForm(text), allSensitiveFields)),
                          maxBodySize),
                    http_request_body_type |-> "form",
                    http_request_body_size |-> Len(text)]),
          ops |-> ops \cup {"parse", "redact"}, error |-> spanThrows]
    ELSE [attrs |-> attrs, ops |-> ops, error |-> FALSE]

\* wrappedHandler(request, context) is called: captureRequestBody(request)
\* runs up to its first await.
WrapperCall ==
    /\ variant \in {"wrapper", "wrapperAsync"}
    /\ wpc = "idle"
    /\ LET st == CaptureRequestBodyStart
       IN  /\ cpc' = st.cpc
           /\ ops' = st.ops
           /\ origReader' = st.origReader
           /\ captureError' = st.captureError
    /\ wpc' = "called"
    /\ UNCHANGED <<unitVars, cfgVars, arrived, wrapperResult, cloneRead, hpc,
                   handlerCalls, handlerArgs, handlerText, handlerGot,
                   handlerResult, cached, attrs, spanCreated, spanEnded, escaped,
                   nodeVars>>

\* The arguments wrappedHandler passes to handler, given its own
HandlerArguments(request, context) == [request |-> request, context |-> context]

\* `handler(request, context)`
WrapperInvokeHandler ==
    /\ variant \in {"wrapper", "wrapperAsync"}
    /\ wpc = "called"
    /\ wpc' = "invoked"
    /\ hpc' = "running"
    /\ handlerCalls' = handlerCalls + 1
    /\ handlerArgs' = HandlerArguments("request", "context")
    /\ UNCHANGED <<unitVars, cfgVars, arrived, wrapperResult, capVars,
                   handlerText, handlerGot, handlerResult, origReader, cached,
                   spanVars, nodeVars>>

\* Capture reads the next chunk of its body source.
CaptureReadChunk ==
    /\ variant \in {"wrapper", "wrapperAsync", "middleware"}
    /\ ~InSyncSection
    /\ cpc = "reading"
    /\ cloneRead < arrived
    /\ cloneRead' = cloneRead + 1
    /\ ops' = ops \cup {"read"}
    /\ UNCHANGED <<unitVars, cfgVars, arrived, frameVars, cpc, captureError,
                   hostVars, attrs, spanCreated, spanEnded, escaped, nodeVars>>

\* `await cloned.text()` resolves and captureRequestBody runs to its end.
WrapperCaptureFinish ==
    /\ variant \in {"wrapper", "wrapperAsync"}
    /\ ~InSyncSection
    /\ cpc = "reading"
    /\ cloneRead = NChunks
    /\ \E spanThrows \in BOOLEAN :
         LET r == CaptureRequestBodyFinish(CaptureText, spanThrows)
         IN  /\ attrs' = r.attrs
             /\ ops' = r.ops
             /\ captureError' = (captureError \/ r.error)
    /\ cpc' = "done"
    /\ UNCHANGED <<unitVars, cfgVars, arrived, frameVars, cloneRead, hostVars,
                   spanCreated, spanEnded, escaped, nodeVars>>

\* What wrappedHandler settles with, given the handler's outcome and whether
\* capture raised an exception
WrappedReturnCaptureError(handlerOutcome, captureFailed) ==
    IF captureFailed THEN "rejected" ELSE handlerOutcome
WrappedReturn(handlerOutcome, captureFailed) == handlerOutcome

\* withSecureNow: `return handler(request, context)` settles.
WrapperReturn ==
    /\ variant = "wrapper"
    /\ wpc = "invoked"
    /\ hpc = "done"
    /\ wpc' = "returned"
    /\ wrapperResult' = WrappedReturn(handlerResult, captureError)
    /\ UNCHANGED <<unitVars, cfgVars, arrived, capVars, hostVars, spanVars,
                   nodeVars>>

\* withSecureNowAsync: `await handler(...)` rejects, or it resolves and
\* `await capturePromise.catch(() => {})` has resolved.
WrapperAsyncReturn ==
    /\ variant = "wrapperAsync"
    /\ wpc = "invoked"
    /\ hpc = "done"
    /\ (handlerResult = "rejected" \/ cpc = "done")
    /\ wpc' = "returned"
    /\ wrapperResult' = WrappedReturn(handlerResult, captureError)
    /\ UNCHANGED <<unitVars, cfgVars, arrived, capVars, hostVars, spanVars,
                   nodeVars>>

(* ---- the host's handler, reading a Request ---- *)

\* The handler calls request.text() (or json()): the first read of the body.
HandlerCallText ==
    /\ variant \in {"wrapper", "wrapperAsync", "middleware", "auto"}
    /\ hpc = "running"
    /\ handlerText = "none"
    /\ IF origReader # "none"
       THEN \* TypeError: body already used
            /\ handlerText' = "rejected"
            /\ UNCHANGED <<hpc, origReader>>
       ELSE /\ handlerText' = "pending"
            /\ hpc' = "reading"
            /\ origReader' = "handler"
    /\ UNCHANGED <<unitVars, cfgVars, arrived, frameVars, capVars, handlerCalls,
                   handlerArgs, handlerGot, handlerResult, cached, spanVars,
                   nodeVars>>

HandlerReadChunk ==
    /\ variant \in {"wrapper", "wrapperAsync", "middleware", "auto"}
    /\ hpc = "reading"
    /\ Len(handlerGot) < arrived
    /\ handlerGot' = Append(handlerGot, Chunks[Len(handlerGot) + 1])
    /\ UNCHANGED <<unitVars, cfgVars, arrived, frameVars, capVars, hpc,
                   handlerCalls, handlerArgs, handlerText, handlerResult,
                   origReader, cached, spanVars, nodeVars>>

\* The auto-capture patch is installed when the module is imported with
\* capture enabled.
Patched == variant = "auto" /\ captureBody

\* The handler's text() resolves.  Under the auto-capture patch the text is
\* cached and safeBodyCapture is scheduled with setImmediate.
HandlerTextResolve ==
    /\ variant \in {"wrapper", "wrapperAsync", "middleware", "auto"}
    /\ hpc = "reading"
    /\ Len(handlerGot) = NChunks
    /\ handlerText' = "resolved"
    /\ hpc' = "running"
    /\ IF Patched
       THEN /\ cached' = [set |-> TRUE, text |-> Flatten(handlerGot)]
            /\ cpc' = IF method \in CaptureMethods /\ activeSpan
                      THEN "scheduled" ELSE cpc
       ELSE UNCHANGED <<cached, cpc>>
    /\ UNCHANGED <<unitVars, cfgVars, arrived, frameVars, cloneRead,
                   captureError, handlerCalls, handlerArgs, handlerGot,
                   handlerResult, origReader, spanVars, nodeVars>>

\* The handler returns its response, or rejects.
HandlerReturn ==
    /\ variant \in {"wrapper", "wrapperAsync", "middleware", "auto"}
    /\ hpc = "running"
    /\ hpc' = "done"
    /\ handlerResult' \in {"response", "rejected"}
    /\ UNCHANGED <<unitVars, cfgVars, arrived, frameVars, capVars, handlerCalls,
                   handlerArgs, handlerText, handlerGot, origReader, cached,
                   spanVars, nodeVars>>

\* The framework invokes the route handler: after middleware() has returned,
\* or directly under the auto-capture patch.
HandlerInvoke ==
    /\ \/ variant = "middleware" /\ wpc = "returned"
       \/ variant = "auto"
    /\ hpc = "idle"
    /\ hpc' = "running"
    /\ handlerCalls' = handlerCalls + 1
    /\ handlerArgs' = [request |-> "request", context |-> "context"]
    /\ UNCHANGED <<unitVars, cfgVars, arrived, frameVars, capVars, handlerText,
                   handlerGot, handlerResult, origReader, cached, spanVars,
                   nodeVars>>

(* ---- the Next.js middleware ---- *)

\* `if (createdSpan) { span.setStatus(...); span.end(); }`
EndAlways(created, n) == n + 1
EndIfCreated(created, n) == IF created THEN n + 1 ELSE n

\* middleware(request) up to its first await, or to its return.
MiddlewareCall ==
    /\ variant = "middleware"
    /\ wpc = "idle"
    /\ IF method \notin CaptureMethods
       THEN /\ wpc' = "returned"
            /\ cpc' = "done"
            /\ UNCHANGED <<attrs, spanCreated, spanEnded, ops, origReader,
                           captureError>>
       ELSE LET created == ~activeSpan
            IN
            /\ spanCreated' = created
            /\ IF \/ Includes(contentType, APPLICATION_JSON)
                  \/ Includes(contentType, APPLICATION_GRAPHQL)
                  \/ Includes(contentType, APPLICATION_FORM)
               THEN IF origReader # "none"
                    THEN \* clone() throws; caught
                         /\ captureError' = TRUE
                         /\ spanEnded' = EndIfCreated(created, spanEnded)
                         /\ wpc' = "returned"
                         /\ cpc' = "done"
                         /\ UNCHANGED <<attrs, ops, origReader>>
                    ELSE /\ wpc' = "called"
                         /\ cpc' = "reading"
                         /\ IF CaptureBodySource = "clone"
                            THEN ops' = ops \cup {"clone"} /\ UNCHANGED origReader
                            ELSE origReader' = "capture" /\ UNCHANGED ops
                         /\ UNCHANGED <<attrs, spanEnded, captureError>>
               ELSE IF Includes(contentType, MULTIPART_FORM_DATA)
               THEN \E spanThrows \in BOOLEAN :
                         /\ attrs' = IF spanThrows THEN attrs
                                     ELSE Merge(attrs,
                                            [http_request_body |-> MULTIPART_NOT_CAPTURED,
                                             http_request_body_type |-> "multipart"])
                         /\ captureError' = spanThrows
                         /\ spanEnded' = EndIfCreated(created, spanEnded)
                         /\ wpc' = "returned"
                         /\ cpc' = "done"
                         /\ UNCHANGED <<ops, origReader>>
               ELSE /\ spanEnded' = EndIfCreated(created, spanEnded)
                    /\ wpc' = "returned"
                    /\ cpc' = "done"
                    /\ UNCHANGED <<attrs, ops, origReader, captureError>>
    /\ UNCHANGED <<unitVars, cfgVars, arrived, wrapperResult, cloneRead, hpc,
                   handlerCalls, handlerArgs, handlerText, handlerGot,
                   handlerResult, cached, escaped, nodeVars>>

\* middleware after `await clonedRequest.text()` / `formData()`:
\* [attrs, ops, error]; an exception is caught by the try of middleware.
MiddlewareCapture(text, spanThrows) ==
    IF \/ Includes(contentType, APPLICATION_JSON)
       \/ Includes(contentType, APPLICATION_GRAPHQL)
    THEN IF /\ Len(text) <= maxBodySize
            /\ Includes(contentType, APPLICATION_GRAPHQL)
            /\ text # <<>>
            /\ NewRegExpThrows(allSensitiveFields)
         THEN \* redactGraphQLQuery throws; caught by the try of middleware
              [attrs |-> attrs, ops |-> ops \cup {"redact"}, error |-> TRUE]
         ELSE IF Len(text) <= maxBodySize
         THEN LET isGraphQL == Includes(contentType, APPLICATION_GRAPHQL)
                  parsed == JSONParse(text)
                  redactedBody ==
                      IF isGraphQL THEN redactGraphQLQuery(text, allSensitiveFields)
                      ELSE IF parsed = SyntaxError THEN text
                      ELSE JSONStringify(redactSensitiveData(parsed, allSensitiveFields))
              IN  [attrs |->
                     IF spanThrows THEN attrs
                     ELSE Merge(attrs,
                            [http_request_body |-> Substring0(redactedBody, maxBodySize),
                             http_request_body_type |->
                               IF Includes(contentType, GRAPHQL)
                               THEN "graphql" ELSE "json",
                             http_request_body_size |-> Len(text)]),
                   ops |-> ops \cup (IF isGraphQL THEN {"redact"}
                                     ELSE IF parsed = SyntaxError THEN {"parse"}
                                     ELSE {"parse", "redact"}),
                   error |-> spanThrows \/ (~isGraphQL /\ parsed = SyntaxError)]
         ELSE [attrs |-> IF spanThrows THEN attrs
                         ELSE Merge(attrs, [http_request_body |-> TooLarge(Len(text))]),
               ops |-> ops, error |-> spanThrows]
    ELSE \* application/x-www-form-urlencoded
         LET parsed == ParseForm(text)
         IN  [attrs |->
                IF spanThrows THEN attrs
                ELSE Merge(attrs,
                       [http_request_body |->
                          Substring0(JSONStringify(
                              redactSensitiveData(parsed, allSensitiveFields)),
                              maxBodySize),
                        http_request_body_type |-> "form",
                        http_request_body_size |-> Len(JSONStringify(parsed))]),
              ops |-> ops \cup {"parse", "redact"}, error |-> spanThrows]

\* The awaited read of the clone resolves; middleware runs to its return.
MiddlewareFinish ==
    /\ variant = "middleware"
    /\ wpc = "called"
    /\ cpc = "reading"
    /\ cloneRead = NChunks
    /\ \E spanThrows \in BOOLEAN :
         LET r == MiddlewareCapture(CaptureText, spanThrows)
         IN  /\ attrs' = r.attrs
             /\ ops' = r.ops
             /\ captureError' = (captureError \/ r.error)
    /\ spanEnded' = EndIfCreated(spanCreated, spanEnded)
    /\ cpc' = "done"
    /\ wpc' = "returned"
    /\ UNCHANGED <<unitVars, cfgVars, arrived, wrapperResult, cloneRead,
                   hostVars, spanCreated, escaped, nodeVars>>

(* ---- the auto-capture patch ---- *)

\* safeBodyCapture(request, span), scheduled by the patched text():
\* [attrs, ops, error].
SafeBodyCapture(spanThrows) ==
    LET none == [attrs |-> attrs, ops |-> ops, error |-> FALSE]
        text == cached.text
    IN  IF ~SupportedType(contentType) THEN none
        ELSE IF ~(cached.set /\ cached.text # <<>>)
        THEN \* request.clone() of the body the handler has read throws
             [none EXCEPT !.error = TRUE]
        ELSE IF Len(text) > maxBodySize
        THEN [attrs |-> IF spanThrows THEN attrs
                        ELSE Merge(attrs, [http_request_body |-> TooLarge(Len(text))]),
              ops |-> ops, error |-> spanThrows]
        ELSE IF \/ Includes(contentType, APPLICATION_JSON)
                \/ Includes(contentType, APPLICATION_GRAPHQL)
        THEN LET parsed == JSONParse(text)
             IN  IF parsed = SyntaxError
                 THEN [attrs |-> attrs, ops |-> ops \cup {"parse"}, error |-> TRUE]
                 ELSE [attrs |->
                         IF spanThrows THEN attrs
                         ELSE Merge(attrs,
                                [http_request_body |->
                                   Substring0(JSONStringify(
                                       redactSensitiveData(parsed, allSensitiveFields)),
                                       maxBodySize),
                                 http_request_body_type |->
                                   IF Includes(contentType, GRAPHQL)
                                   THEN "graphql" ELSE "json",
                                 http_request_body_size |-> Len(text)]),
                       ops |-> ops \cup {"parse", "redact"}, error |-> spanThrows]
        ELSE [attrs |->
                IF spanThrows THEN attrs
                ELSE Merge(attrs,
                       [http_request_body |->
                          Substring0(JSONStringify(
                              redactSensitiveData(ParseForm(text), allSensitiveFields)),
                              maxBodySize),
                        http_request_body_type |-> "form",
                        http_request_body_size |-> Len(text)]),
              ops |-> ops \cup {"parse", "redact"}, error |-> spanThrows]

\* The setImmediate callback runs safeBodyCapture to its end.
AutoCaptureRun ==
    /\ variant = "auto"
    /\ cpc = "scheduled"
    /\ \E spanThrows \in BOOLEAN :
         LET r == SafeBodyCapture(spanThrows)
         IN  /\ attrs' = r.attrs
             /\ ops' = r.ops
             /\ captureError' = (captureError \/ r.error)
    /\ cpc' = "done"
    /\ UNCHANGED <<unitVars, cfgVars, arrived, frameVars, cloneRead, hostVars,
                   spanCreated, spanEnded, escaped, nodeVars>>

(* ---- the preload requestHook of tracing.js ---- *)

\* requestHook(span, request): runs to its return; it may attach listeners.
PreloadHook ==
    /\ variant = "preload"
    /\ wpc = "idle"
    /\ wpc' = "returned"
    /\ IF captureBody /\ method \in CaptureMethods
       THEN IF SupportedType(contentType)
            THEN /\ hookListening' = TRUE
                 /\ flowing' = TRUE
                 /\ ops' = ops \cup {"listen"}
                 /\ cpc' = "reading"
                 /\ UNCHANGED <<attrs, captureError>>
            ELSE IF Includes(contentType, MULTIPART_FORM_DATA)
            THEN \E spanThrows \in BOOLEAN :
                     /\ attrs' = IF spanThrows THEN attrs
                                 ELSE Merge(attrs,
                                        [http_request_body |-> MULTIPART_NOT_CAPTURED,
                                         http_request_body_type |-> "multipart",
                                         http_request_body_note |-> MULTIPART_NOTE])
                     /\ captureError' = spanThrows
                     /\ cpc' = "done"
                     /\ UNCHANGED <<hookListening, flowing, ops>>
            ELSE /\ cpc' = "done"
                 /\ UNCHANGED <<hookListening, flowing, ops, attrs, captureError>>
       ELSE /\ cpc' = "done"
            /\ UNCHANGED <<hookListening, flowing, ops, attrs, captureError>>
    /\ UNCHANGED <<unitVars, cfgVars, arrived, wrapperResult, cloneRead,
                   hostVars, spanCreated, spanEnded, escaped, hostAttached,
                   hostEnded, encoding, emitted, ended, size, chunks>>

\* The host calls request.setEncoding('utf8'): later chunks are strings.
HostSetEncoding ==
    /\ variant = "preload"
    /\ wpc = "returned"
    /\ encoding = "buffer"
    /\ ~hostAttached
    /\ ~ended
    /\ encoding' = "utf8"
    /\ UNCHANGED <<unitVars, cfgVars, arrived, frameVars, capVars, hostVars,
                   spanVars, flowing, hookListening, hostAttached, hostEnded,
                   emitted, ended, size, chunks>>

\* The host's body reader attaches its 'data' and 'end' listeners.
HostAttach ==
    /\ variant = "preload"
    /\ wpc = "returned"
    /\ ~hostAttached
    /\ hostAttached' = TRUE
    /\ flowing' = TRUE
    /\ UNCHANGED <<unitVars, cfgVars, arrived, frameVars, capVars, hostVars,
                   spanVars, hookListening, hostEnded, encoding, emitted, ended,
                   size, chunks>>

\* The 'data' listener of requestHook after `size += chunk.length`: the
\* chunks it retains, given the new size.
RetainChunkAlways(cs, newSize, chunk) ==
    Append(cs, [data |-> chunk, enc |-> encoding])
RetainChunkLatest(cs, newSize, chunk) ==
    IF newSize <= maxBodySize THEN <<[data |-> chunk, enc |-> encoding]>> ELSE cs
RetainChunk(cs, newSize, chunk) ==
    IF newSize <= maxBodySize
    THEN Append(cs, [data |-> chunk, enc |-> encoding])
    ELSE cs

\* The stream emits 'data' with the next chunk to the listeners attached now.
EmitData ==
    /\ variant = "preload"
    /\ flowing
    /\ emitted < arrived
    /\ LET chunk == Chunks[emitted + 1]
       IN  /\ emitted' = emitted + 1
           /\ IF hookListening
              THEN /\ size' = size + Len(chunk)
                   /\ chunks' = RetainChunk(chunks, size + Len(chunk), chunk)
                   /\ ops' = ops \cup {"read"}
              ELSE UNCHANGED <<size, chunks, ops>>
           /\ handlerGot' = IF hostAttached THEN Append(handlerGot, chunk)
                            ELSE handlerGot
    /\ UNCHANGED <<unitVars, cfgVars, arrived, frameVars, capVars, hpc,
                   handlerCalls, handlerArgs, handlerText, handlerResult,
                   origReader, cached, attrs, spanCreated, spanEnded, escaped,
                   flowing, hookListening, hostAttached, hostEnded, encoding,
                   ended>>

\* The 'end' listener of requestHook: [attrs, ops, error, threw]; threw means
\* the exception left the listener.
PreloadOnEnd(spanThrows) ==
    LET body == Flatten([i \in 1..Len(chunks) |-> chunks[i].data])
        out(a, o, e, t) == [attrs |-> a, ops |-> o, error |-> e, threw |-> t]
        \* the catch block: two setAttribute calls outside any try
        fallback(o) ==
            IF spanThrows THEN out(attrs, o, TRUE, TRUE)
            ELSE out(Merge(attrs,
                       [http_request_body |-> Substring0(body, PARSE_ERROR_PREFIX),
                        http_request_body_parse_error |-> TRUE]), o, TRUE, FALSE)
        written(new, o) ==
            IF spanThrows THEN fallback(o)
            ELSE out(Merge(attrs, new), o, FALSE, FALSE)
    IN  IF size <= maxBodySize /\ Len(chunks) > 0
        THEN IF \E i \in 1..Len(chunks) : chunks[i].enc # "buffer"
             THEN \* Buffer.concat throws a TypeError on a string chunk
                  out(attrs, ops, TRUE, TRUE)
             ELSE IF Includes(contentType, APPLICATION_GRAPHQL)
             THEN IF NewRegExpThrows(allSensitiveFields)
                  THEN fallback(ops \cup {"redact"})
                  ELSE
                  written([http_request_body |->
                             Substring0(redactGraphQLQuery(body, allSensitiveFields),
                                        maxBodySize),
                           http_request_body_type |-> "graphql",
                           http_request_body_size |-> size],
                          ops \cup {"redact"})
             ELSE IF Includes(contentType, APPLICATION_JSON)
             THEN IF JSONParse(body) = SyntaxError
                  THEN fallback(ops \cup {"parse"})
                  ELSE written([http_request_body |->
                                  Substring0(JSONStringify(
                                      redactSensitiveData(JSONParse(body),
                                                          allSensitiveFields)),
                                      maxBodySize),
                                http_request_body_type |-> "json",
                                http_request_body_size |-> size],
                               ops \cup {"parse", "redact"})
             ELSE written([http_request_body |->
                             Substring0(JSONStringify(
                                 redactSensitiveData(ParseForm(body),
                                                     allSensitiveFields)),
                                 maxBodySize),
                           http_request_body_type |-> "form",
                           http_request_body_size |-> size],
                          ops \cup {"parse", "redact"})
        ELSE IF size > maxBodySize
        THEN IF spanThrows THEN out(attrs, ops, TRUE, TRUE)
             ELSE out(Merge(attrs, [http_request_body |-> TooLarge(size),
                                    http_request_body_size |-> size]),
                      ops, FALSE, FALSE)
        ELSE out(attrs, ops, FALSE, FALSE)

\* The stream emits 'end': the listener of requestHook runs first, then the
\* host's, unless the first one threw.
EmitEnd ==
    /\ variant = "preload"
    /\ flowing
    /\ ~ended
    /\ arrived = NChunks
    /\ emitted = NChunks
    /\ ended' = TRUE
    /\ IF hookListening
       THEN \E spanThrows \in BOOLEAN :
              LET r == PreloadOnEnd(spanThrows)
              IN  /\ attrs' = r.attrs
                  /\ ops' = r.ops
                  /\ captureError' = (captureError \/ r.error)
                  /\ escaped' = (escaped \/ r.threw)
                  /\ hostEnded' = (hostAttached /\ ~r.threw)
                  /\ cpc' = "done"
       ELSE /\ hostEnded' = hostAttached
            /\ UNCHANGED <<attrs, ops, captureError, escaped, cpc>>
    /\ UNCHANGED <<unitVars, cfgVars, arrived, frameVars, cloneRead, hostVars,
                   spanCreated, spanEnded, flowing, hookListening, hostAttached,
                   encoding, emitted, size, chunks>>

Next ==
    \/ ChunkArrive
    \/ WrapperCall
    \/ WrapperInvokeHandler
    \/ CaptureReadChunk
    \/ WrapperCaptureFinish
    \/ WrapperReturn
    \/ WrapperAsyncReturn
    \/ HandlerCallText
    \/ HandlerReadChunk
    \/ HandlerTextResolve
    \/ HandlerReturn
    \/ HandlerInvoke
    \/ MiddlewareCall
    \/ MiddlewareFinish
    \/ AutoCaptureRun
    \/ PreloadHook
    \/ HostSetEncoding
    \/ HostAttach
    \/ EmitData
    \/ EmitEnd

Spec == Init /\ [][Next]_vars

-----------------------------------------------------------------------------
(* Two eligible requests with twin bodies, handled one after the other *)

InitPair ==
    /\ RegisterIdle
    /\ SetupIdle
    /\ PatchIdle
    /\ RedactIdle
    /\ GraphQLIdle
    /\ HeapIdle
    /\ variant \in Variants
    /\ captureBody = TRUE
    /\ method = "POST"
    /\ activeSpan = TRUE
    /\ contentType \in {HeaderJson, APPLICATION_FORM}
    /\ maxBodySize \in {SmallMaxBodySize, DEFAULT_MAX_BODY_SIZE}
    /\ customFields = <<>>
    /\ \E p \in (IF contentType = HeaderJson THEN TwinJsonBodies ELSE TwinFormBodies) :
           \/ bodyText = p[1] /\ twinBody = p[2]
           \/ bodyText = p[2] /\ twinBody = p[1]
    /\ requestNo = 1
    /\ firstAttrs = NoAttrs
    /\ arrived = 0
    /\ wpc = "idle" /\ wrapperResult = "none"
    /\ cpc = "none" /\ cloneRead = 0 /\ captureError = FALSE
    /\ hpc = "idle" /\ handlerCalls = 0 /\ handlerArgs = NoArguments
    /\ handlerText = "none" /\ handlerGot = <<>> /\ handlerResult = "none"
    /\ origReader = "none" /\ cached = NotCached
    /\ attrs = NoAttrs /\ spanCreated = FALSE /\ spanEnded = 0
    /\ ops = {} /\ escaped = FALSE
    /\ flowing = FALSE /\ hookListening = FALSE /\ hostAttached = FALSE
    /\ hostEnded = FALSE /\ encoding = "buffer" /\ emitted = 0
    /\ ended = FALSE /\ size = 0 /\ chunks = <<>>

\* Capture of the first request is over; the process receives the second
\* request, a new request object with a new span, under the same
\* configuration.
NextRequest ==
    /\ requestNo = 1
    /\ cpc = "done"
    /\ requestNo' = 2
    /\ firstAttrs' = attrs
    /\ bodyText' = twinBody
    /\ twinBody' = bodyText
    /\ arrived' = 0
    /\ wpc' = "idle" /\ wrapperResult' = "none"
    /\ cpc' = "none" /\ cloneRead' = 0 /\ captureError' = FALSE
    /\ hpc' = "idle" /\ handlerCalls' = 0 /\ handlerArgs' = NoArguments
    /\ handlerText' = "none" /\ handlerGot' = <<>> /\ handlerResult' = "none"
    /\ origReader' = "none" /\ cached' = NotCached
    /\ attrs' = NoAttrs /\ spanCreated' = FALSE /\ spanEnded' = 0
    /\ ops' = {} /\ escaped' = FALSE
    /\ flowing' = FALSE /\ hookListening' = FALSE /\ hostAttached' = FALSE
    /\ hostEnded' = FALSE /\ encoding' = "buffer" /\ emitted' = 0
    /\ ended' = FALSE /\ size' = 0 /\ chunks' = <<>>
    /\ UNCHANGED <<redactVars, gqlVars, heapVars, patchVars, setupVars,
                   registerVars, variant, captureBody, method,
                   contentType, activeSpan, maxBodySize, customFields>>

NextPair ==
    \/ Next
    \/ NextRequest

SpecPair == InitPair /\ [][NextPair]_vars

-----------------------------------------------------------------------------
(* The preload requestHook with caller-supplied sensitive fields *)

\* SECURENOW_SENSITIVE_FIELDS of the process: none, a field name, a field
\* name with an open parenthesis
PreloadCustomFields == {<<>>, << <<"I","D">> >>, << <<"p","w","d","(">> >>}

InitPreload ==
    /\ RegisterIdle
    /\ PairIdle
    /\ SetupIdle
    /\ PatchIdle
    /\ RedactIdle
    /\ GraphQLIdle
    /\ HeapIdle
    /\ variant = "preload"
    /\ captureBody \in BOOLEAN
    /\ method \in Methods
    /\ contentType \in ContentTypes
    /\ activeSpan = TRUE
    /\ maxBodySize \in {SmallMaxBodySize, DEFAULT_MAX_BODY_SIZE}
    /\ customFields \in PreloadCustomFields
    /\ bodyText \in Bodies
    /\ arrived = 0
    /\ wpc = "idle" /\ wrapperResult = "none"
    /\ cpc = "none" /\ cloneRead = 0 /\ captureError = FALSE
    /\ hpc = "idle" /\ handlerCalls = 0 /\ handlerArgs = NoArguments
    /\ handlerText = "none" /\ handlerGot = <<>> /\ handlerResult = "none"
    /\ origReader = "none" /\ cached = NotCached
    /\ attrs = NoAttrs /\ spanCreated = FALSE /\ spanEnded = 0
    /\ ops = {} /\ escaped = FALSE
    /\ flowing = FALSE /\ hookListening = FALSE /\ hostAttached = FALSE
    /\ hostEnded = FALSE /\ encoding = "buffer" /\ emitted = 0
    /\ ended = FALSE /\ size = 0 /\ chunks = <<>>

NextPreload ==
    \/ ChunkArrive
    \/ PreloadHook
    \/ HostSetEncoding
    \/ HostAttach
    \/ EmitData
    \/ EmitEnd

SpecPreload == InitPreload /\ [][NextPreload]_vars

-----------------------------------------------------------------------------
(* Properties of the redactor *)

\* A field name is sensitive iff some entry of the set, lowercased, is a
\* substring of the lowercased name.
IsSensitive(k, F) ==
    \E i \in 1..Len(F) :
        LET f == ToLowerCase(F[i])
            n == ToLowerCase(k)
        IN  \E j \in 1..(Len(n) - Len(f) + 1) :
                \A c \in 1..Len(f) : n[j + c - 1] = f[c]

RECURSIVE KeysRedacted(_, _, _)
\* r treats every mapping key of v that is reachable without passing through
\* a sensitive key as C7 says: marker iff sensitive, scalars under other keys
\* unchanged.  Array positions are passed through: they carry no field name.
KeysRedacted(v, r, F) ==
    CASE v.kind = "obj" ->
           /\ r.kind = "obj"
           /\ Len(r.val) = Len(v.val)
           /\ \A i \in 1..Len(v.val) :
                /\ r.val[i].k = v.val[i].k
                /\ IF IsSensitive(v.val[i].k, F)
                   THEN r.val[i].v = REDACTED
                   ELSE IF IsContainer(v.val[i].v)
                        THEN KeysRedacted(v.val[i].v, r.val[i].v, F)
                        ELSE r.val[i].v = v.val[i].v
      [] v.kind = "arr" ->
           /\ r.kind = "arr"
           /\ Len(r.val) = Len(v.val)
           /\ \A i \in 1..Len(v.val) :
                IsContainer(v.val[i]) => KeysRedacted(v.val[i], r.val[i], F)
      [] OTHER -> TRUE

RECURSIVE ShapePreserved(_, _, _)
\* r has the shape of v at every level not under a sensitive mapping key:
\* same keys in the same order, same length, and no array element replaced.
ShapePreserved(v, r, F) ==
    CASE v.kind = "obj" ->
           /\ r.kind = "obj"
           /\ Len(r.val) = Len(v.val)
           /\ \A i \in 1..Len(v.val) :
                /\ r.val[i].k = v.val[i].k
                /\ \/ IsSensitive(v.val[i].k, F)
                   \/ ShapePreserved(v.val[i].v, r.val[i].v, F)
      [] v.kind = "arr" ->
           /\ r.kind = "arr"
           /\ Len(r.val) = Len(v.val)
           /\ \A i \in 1..Len(v.val) : ShapePreserved(v.val[i], r.val[i], F)
      [] OTHER -> r = v

\* Some entry of F is a substring of the index of an array position that
\* occurs in values of the model (such an entry consists of digits only).
MatchesAnIndex(F) == \E i \in 0..MaxNodes : IsSensitive(NumberToString(i), F)

\* C7: redactSensitiveData(V, F) replaces the value of a mapping key, at any
\* depth reachable without passing through a sensitive key, by '[REDACTED]'
\* if and only if the key is sensitive, whatever the value's type, and leaves
\* the scalar value of every other key unchanged.
C7_SensitiveKeysRedacted ==
    rpc = "done" => KeysRedacted(obj, redacted, sensitiveFields)

\* C7, for the field sets none of whose entries matches an array index: what
\* is left of the claim when the array-position slip of C8 cannot occur.
C7_WithoutIndexMatch ==
    (rpc = "done" /\ ~MatchesAnIndex(sensitiveFields))
        => KeysRedacted(obj, redacted, sensitiveFields)

\* C8: redactSensitiveData preserves shape for every value and field set: a
\* mapping keeps its keys in order, a sequence keeps its length, and an array
\* element, scalar or container, is never itself replaced by the marker.
C8_ShapePreserved ==
    rpc = "done" => ShapePreserved(obj, redacted, sensitiveFields)

\* C13: redactSensitiveData is idempotent: redacting its result again with
\* the same fields returns the result unchanged.
C13_RedactIdempotent ==
    rpc = "again" => redactedAgain = redacted

\* A value the first call changed has been redacted a second time.
C13_Witness ==
    /\ rpc = "again"
    /\ redacted # obj
    /\ IsContainer(redacted)
    /\ redactedAgain = redacted

RECURSIVE RefsFrom(_, _)
\* The addresses of the containers of the value x denotes in the heap h
RefsFrom(h, x) ==
    IF x.kind # "ref" THEN {}
    ELSE {x.val} \cup UNION {RefsFrom(h, h[x.val].vals[i]) : i \in 1..Len(h[x.val].vals)}

\* C15: redactSensitiveData leaves every object of its argument as it was,
\* and every container of its result is an object created by the call.
C15_ArgumentNotMutated ==
    mpc = "done" =>
        /\ SubSeq(heap, 1, Len(HeapAtCall.heap)) = HeapAtCall.heap
        /\ Reify(heap, HeapAtCall.val) = heapInput
        /\ \A a \in RefsFrom(heap, heapResult) : a > Len(HeapAtCall.heap)
        /\ Reify(heap, heapResult) = redactSensitiveData(heapInput, heapFields)

\* A nested argument was redacted: a key of it was replaced in the copy, and
\* a container nested in it was copied.
C15_Witness ==
    /\ mpc = "done"
    /\ Cardinality(RefsFrom(heap, heapResult)) >= 2
    /\ Reify(heap, heapResult) # heapInput
    /\ Reify(heap, HeapAtCall.val) = heapInput

-----------------------------------------------------------------------------
(* Properties of the GraphQL text redactor *)

\* The query with the value of every occurrence of a sensitive field
\* replaced by the marker, quotes and delimiter kept
ValuesRedacted(parts, fields) ==
    parts.prefix
    \o Flatten([i \in 1..Len(parts.occs) |->
                   IF KeyMatches(parts.occs[i].name, fields)
                   THEN RenderWith(parts.occs[i], REDACTED.val)
                   ELSE RenderWith(parts.occs[i], parts.occs[i].value.text)])

\* C11: redactGraphQLQuery replaces the value of every occurrence of a
\* sensitive field by [REDACTED], keeps its quotes and the delimiter after
\* it, and changes or inserts nothing else.
C11_OnlyValueReplaced ==
    (gpc # "call" /\ gqlFields \in PlainFieldLists)
        => gqlOut = ValuesRedacted(gqlParts, gqlFields)

\* C12: a single field that is no case-insensitive substring of the query
\* leaves the query unchanged.
C12_AbsentFieldNoChange ==
    ( /\ gpc # "call"
      /\ Len(gqlFields) = 1
      /\ ~Includes(ToLowerCase(gqlText), ToLowerCase(gqlFields[1])) )
    => gqlOut = gqlText

\* C12, for the fields made of letters, digits and underscores only: what is
\* left of the claim when the field holds no pattern metacharacter.
C12_PlainFieldNoChange ==
    gqlFields \in PlainFieldLists => C12_AbsentFieldNoChange

\* C14: redactGraphQLQuery is idempotent: redacting its result again with
\* the same fields returns the result unchanged.
C14_GraphQLIdempotent ==
    gpc = "again" => gqlAgain = gqlOut

-----------------------------------------------------------------------------
(* Properties of one request *)

CloneVariants == {"wrapper", "wrapperAsync", "middleware"}
WrapperVariants == {"wrapper", "wrapperAsync"}

\* The eligibility gate: capture enabled, an active span, a capture method
Eligible == captureBody /\ activeSpan /\ method \in CaptureMethods

\* Capture ran to its end without an exception
CaptureCompleted == cpc = "done" /\ ~captureError /\ ~escaped

\* Capture touched the request body
BodyTouched == ops \cap {"clone", "listen", "read"} # {}

C2_HostReceivesEveryChunk ==
    (variant = "preload" /\ hostEnded) => handlerGot = Chunks

\* C3: no exception of capture leaves requestHook or its listeners,
\* middleware() or the wrapped handler.
C3_NothingEscapes == ~escaped

\* C4: once the host side is done, the wrapped handler and middleware() can
\* deliver their result at once, whatever the state of capture.
C4_ResponseNeverWaits ==
    /\ (variant \in WrapperVariants /\ wpc = "invoked" /\ hpc = "done")
          => ENABLED (WrapperReturn \/ WrapperAsyncReturn)
    /\ (variant = "middleware" /\ wpc = "called") => ENABLED MiddlewareFinish

\* C5: the wrapped handlers call handler at most once, exactly once by the
\* time they settle, with the request and context they were given, and
\* settle with the handler's own outcome whatever capture did.
C5_HandlerOnceResultUnchanged ==
    variant \in WrapperVariants =>
        /\ handlerCalls <= 1
        /\ (handlerCalls = 1 =>
               handlerArgs = [request |-> "request", context |-> "context"])
        /\ (wpc = "returned" =>
               /\ handlerCalls = 1
               /\ hpc = "done"
               /\ wrapperResult = handlerResult)

\* The wrapped handler settles with the response although capture failed.
C5_Witness ==
    /\ variant \in WrapperVariants
    /\ wpc = "returned"
    /\ captureError
    /\ handlerCalls = 1
    /\ wrapperResult = "response"

\* C6: unless the request is eligible nothing is written to a span and no
\* span is created; the body is touched only for an eligible request of a
\* supported content type.
C6_EligibilityGate ==
    /\ ~Eligible => (attrs = NoAttrs /\ ~spanCreated)
    /\ BodyTouched => (Eligible /\ SupportedType(contentType))

\* C9: an eligible json, graphql or form body longer than maxBodySize is
\* neither parsed nor redacted and the span receives exactly the too-large
\* marker and the size.
C9_TooLargeMarkerAndSize ==
    ( /\ Eligible
      /\ SupportedType(contentType)
      /\ Len(bodyText) > maxBodySize
      /\ CaptureCompleted )
    => /\ attrs = [http_request_body |-> TooLarge(Len(bodyText)),
                   http_request_body_size |-> Len(bodyText)]
       /\ ops \cap {"parse", "redact"} = {}

\* C10: an eligible multipart request gets the placeholder and the type
\* 'multipart', and its body is never touched.
C10_MultipartPlaceholder ==
    ( /\ Eligible
      /\ Includes(contentType, MULTIPART_FORM_DATA)
      /\ CaptureCompleted )
    => /\ {"http_request_body", "http_request_body_type"} \subseteq DOMAIN attrs
       /\ attrs.http_request_body = MULTIPART_NOT_CAPTURED
       /\ attrs.http_request_body_type = "multipart"
       /\ ~BodyTouched

\* The body is not empty and within the size limit
WithinLimit == bodyText # <<>> /\ Len(bodyText) <= maxBodySize

\* C16: an eligible application/graphql body is never parsed as JSON; what
\* the span receives is the raw text through redactGraphQLQuery, with the
\* type 'graphql'.
C16_GraphQLNeverParsed ==
    ( /\ Eligible
      /\ Includes(contentType, APPLICATION_GRAPHQL)
      /\ WithinLimit
      /\ cpc = "done" )
    => /\ "parse" \notin ops
       /\ attrs # NoAttrs =>
             attrs = [http_request_body |->
                        Substring0(redactGraphQLQuery(bodyText, allSensitiveFields),
                                   maxBodySize),
                      http_request_body_type |-> "graphql",
                      http_request_body_size |-> Len(bodyText)]

\* C17: when an eligible application/json body within the limit fails to
\* parse, what the span receives is the raw text cut to the fixed prefix,
\* with http.request.body.parse_error = true.
C17_ParseFailureDegrades ==
    ( /\ Eligible
      /\ Includes(contentType, APPLICATION_JSON)
      /\ WithinLimit
      /\ JSONParse(bodyText) = SyntaxError
      /\ cpc = "done"
      /\ attrs # NoAttrs )
    => attrs = [http_request_body |-> Substring0(bodyText, PARSE_ERROR_PREFIX),
                http_request_body_parse_error |-> TRUE]

-----------------------------------------------------------------------------
(* Properties of the patched Request methods *)

\* C18: however the calls of text() and json() on one request interleave,
\* each settles as a read of the whole body does, and the original text()
\* is invoked at most once.
C18_RepeatedCallsSameBody ==
    /\ originalTextCalls <= 1
    /\ \A i \in 1..Len(patchCalls) :
          (patchCalls[i].kind \in {"text", "json"} /\ patchCalls[i].result.status # "pending")
              => patchCalls[i].result
                     = PatchedOutcome(patchCalls[i].kind, patchRequest.body)

\* C19: the first call of a patched method on a request settles with what
\* the unpatched method gives for the first read.
C19_PatchedAsUnpatched ==
    (Len(patchCalls) >= 1 /\ patchCalls[1].result.status # "pending")
        => patchCalls[1].result = OriginalOutcome(patchCalls[1].kind, patchRequest)

-----------------------------------------------------------------------------
(* Properties of project setup *)

\* C20: no step of setup(), or of `securenow init` without --force, changes
\* the content of an instrumentation file or of .env.local that exists.
C20_NeverOverwrites ==
    [][ (command = "setup" \/ ~flags.force)
          => \A p \in Paths : files[p] # "absent" => files'[p] = files[p] ]_vars

\* A run created the instrumentation file next to files the project held.
C20_Witness ==
    /\ spc = "done"
    /\ command = "setup" \/ ~flags.force
    /\ files[ENV_LOCAL] = "user"
    /\ \E p \in InstrumentationFiles : files[p] = "template"

-----------------------------------------------------------------------------
(* registerSecureNow *)

\* C21: across any sequence of registerSecureNow calls in one process,
\* calls after a failed or a skipped attempt included, registerOTel is
\* performed at most once.
C21_RegisterOTelAtMostOnce == registerOTelCalls <= 1

\* What the code does keep: registerOTel returns normally at most once, and
\* it is not invoked again after it did.
C21_CompletedAtMostOnce ==
    /\ registrations <= 1
    /\ isRegistered = (registrations = 1)

\* C22: registerSecureNow never throws to its caller: every call returns
\* normally, whatever the options and the environment, a missing
\* @vercel/otel module and a failing registerOTel included.
C22_NeverThrows ==
    \A i \in DOMAIN registerCalls : registerCalls[i].outcome = "returned"

\* A missing module, a failing registerOTel and a null options object have
\* each ended one call.
C22_Witness ==
    /\ \E i \in DOMAIN registerCalls : registerCalls[i].exit = "require"
    /\ \E i \in DOMAIN registerCalls : registerCalls[i].exit = "registerOTel"
    /\ \E i \in DOMAIN registerCalls : registerCalls[i].exit = "config"

\* C23: withSecureNowAsync starts capturing the request body only after the
\* wrapped handler has run: no capture step (clone or body read) happens
\* before the handler has returned.
C23_CaptureAfterHandler ==
    (variant = "wrapperAsync" /\ ops \cap {"clone", "read"} # {})
        => hpc = "done"

\* C24: content-type classification depends only on the lowercased header
\* value: a request whose header differs from a supported one only in letter
\* case gets the capture outcome of that kind.  With the header as sent,
\* every eligible supported body within the limit whose capture completes
\* has attributes written (C24_AsSentCaptured); so has one whose header is
\* supported once lowercased.
C24_CaseInsensitiveContentType ==
    ( /\ Eligible
      /\ SupportedType(ToLowerCase(contentType))
      /\ WithinLimit
      /\ CaptureCompleted )
    => attrs # NoAttrs

\* What the code does keep: the outcome for the header exactly as sent.
C24_AsSentCaptured ==
    ( /\ Eligible
      /\ SupportedType(contentType)
      /\ WithinLimit
      /\ CaptureCompleted )
    => attrs # NoAttrs

\* C25: whenever capture writes http.request.body.size, in any variant and
\* for any content kind, its value is the length of the request body as
\* received, before parsing, redaction or re-serialization.
C25_SizeIsInputLength ==
    "http_request_body_size" \in DOMAIN attrs
        => attrs.http_request_body_size = Len(bodyText)

\* What the code does keep: the size is the input length everywhere but for
\* the form bodies of middleware().
C25_SizeExceptMiddlewareForm ==
    ( /\ "http_request_body_size" \in DOMAIN attrs
      /\ ~(variant = "middleware" /\ Includes(contentType, APPLICATION_FORM)) )
    => attrs.http_request_body_size = Len(bodyText)

\* The text of the chunks requestHook retains
RetainedText == Flatten([i \in 1..Len(chunks) |-> chunks[i].data])

\* C26: while the preload requestHook is capturing, after any sequence of
\* 'data' events the total length of the chunks it retains never exceeds
\* maxBodySize, however large the body is.
C26_RetainedWithinLimit ==
    variant = "preload" => Len(RetainedText) <= maxBodySize

\* The body has grown past the limit after chunks were retained.
C26_Witness ==
    /\ variant = "preload"
    /\ hookListening
    /\ size > maxBodySize
    /\ Len(chunks) >= 2

\* C27: in the preload requestHook, whenever the 'end' listener finds the
\* total size within maxBodySize, the retained chunks are all the chunks of
\* the body in arrival order: the text parsed and redacted is never a
\* partial body.
C27_RetainedIsWholeBody ==
    (variant = "preload" /\ hookListening /\ size <= maxBodySize)
        => /\ [i \in 1..Len(chunks) |-> chunks[i].data] = SubSeq(Chunks, 1, emitted)
           /\ (ended => RetainedText = bodyText)

\* 'end' was emitted for a body of several chunks within the limit.
C27_Witness ==
    /\ variant = "preload"
    /\ hookListening
    /\ ended
    /\ size <= maxBodySize
    /\ Len(chunks) >= 2
    /\ maxBodySize = SmallMaxBodySize

\* C28: every span middleware() creates because no span was active is ended
\* exactly once before middleware() returns, on the success path and on the
\* failure path alike, and only after all of its attribute writes;
\* middleware() never ends a span it did not create.
C28_CreatedSpanEndedOnce ==
    variant = "middleware" =>
        /\ spanEnded <= 1
        /\ (spanEnded = 1 => spanCreated /\ cpc = "done" /\ wpc = "returned")
        /\ (wpc = "returned" /\ spanCreated => spanEnded = 1)
        /\ (spanCreated => ~activeSpan)

\* middleware() returned on its failure path with the span it created ended.
C28_Witness ==
    /\ variant = "middleware"
    /\ wpc = "returned"
    /\ spanCreated
    /\ spanEnded = 1
    /\ captureError
    /\ "read" \in ops

-----------------------------------------------------------------------------
(* Sensitive values and the captured body *)

\* The body of a request as capture parses it
ParsedBody(text) ==
    IF Includes(contentType, APPLICATION_FORM) THEN ParseForm(text)
    ELSE JSONParse(text)

RECURSIVE DifferOnlyUnderSensitiveKeys(_, _, _)
\* a and b are the same value but for what is stored under the keys that F
\* makes sensitive
DifferOnlyUnderSensitiveKeys(a, b, F) ==
    IF a.kind = "obj" /\ b.kind = "obj"
    THEN /\ Len(a.val) = Len(b.val)
         /\ \A i \in 1..Len(a.val) :
              /\ a.val[i].k = b.val[i].k
              /\ \/ IsSensitive(a.val[i].k, F)
                 \/ DifferOnlyUnderSensitiveKeys(a.val[i].v, b.val[i].v, F)
    ELSE IF a.kind = "arr" /\ b.kind = "arr"
    THEN /\ Len(a.val) = Len(b.val)
         /\ \A i \in 1..Len(a.val) :
              DifferOnlyUnderSensitiveKeys(a.val[i], b.val[i], F)
    ELSE a = b

\* Capture wrote the body of the request into these attributes
BodyWritten(a) == {"http_request_body", "http_request_body_type"} \subseteq DOMAIN a

\* C29: sensitive values do not influence the captured body: for two
\* eligible JSON or form requests that both parse, are both within
\* maxBodySize and differ only in the values stored under sensitive keys,
\* capture writes the same http.request.body and http.request.body.type.
C29_SensitiveValuesDoNotShow ==
    ( /\ requestNo = 2
      /\ Len(bodyText) <= maxBodySize
      /\ Len(twinBody) <= maxBodySize
      /\ ParsedBody(bodyText) # SyntaxError
      /\ ParsedBody(twinBody) # SyntaxError
      /\ DifferOnlyUnderSensitiveKeys(ParsedBody(bodyText), ParsedBody(twinBody),
                                      allSensitiveFields)
      /\ BodyWritten(firstAttrs)
      /\ BodyWritten(attrs) )
    => /\ firstAttrs.http_request_body = attrs.http_request_body
       /\ firstAttrs.http_request_body_type = attrs.http_request_body_type

\* Both requests were captured, and their bodies are not the same text.
C29_Witness ==
    /\ requestNo = 2
    /\ bodyText # twinBody
    /\ Len(bodyText) <= maxBodySize
    /\ Len(twinBody) <= maxBodySize
    /\ DifferOnlyUnderSensitiveKeys(ParsedBody(bodyText), ParsedBody(twinBody),
                                    allSensitiveFields)
    /\ BodyWritten(firstAttrs)
    /\ BodyWritten(attrs)
    /\ firstAttrs.http_request_body_type = "json"

-----------------------------------------------------------------------------
(* The parse-error fallback of the preload requestHook *)

\* C30: in the preload variant the span receives unredacted body text (the
\* http.request.body.parse_error fallback) only when the body is JSON that
\* fails to parse: a JSON or form body that parses, and any GraphQL body, is
\* never attached unredacted, even when redaction or the attribute write
\* fails.
C30_FallbackOnlyForInvalidJson ==
    (variant = "preload" /\ "http_request_body_parse_error" \in DOMAIN attrs)
        => /\ Includes(contentType, APPLICATION_JSON)
           /\ ~Includes(contentType, APPLICATION_GRAPHQL)
           /\ JSONParse(bodyText) = SyntaxError

\* What the code does keep: with field names that build valid patterns the
\* fallback is written for invalid JSON only.
C30_ValidPatternsFallback ==
    NewRegExpThrows(allSensitiveFields) \/ C30_FallbackOnlyForInvalidJson

====
